---- MODULE Spec2Model ----
(***************************************************************************)
(* Model of the GitHub request broker (crates/gh_broker): request          *)
(* fingerprinting, the coalescing pending map, the per-budget weighted     *)
(* round-robin schedulers, the executor with its global and per-repository *)
(* permits, the token pool, the response cache and the retry loop.         *)
(*                                                                         *)
(* Time is discrete.  Every duration the code keeps (a token's reset_at,   *)
(* a cache entry's stored_at, a sleep) is held relative to "now" and moved *)
(* by the Tick action, so no absolute clock is needed.                     *)
(***************************************************************************)
EXTENDS Integers, Sequences, FiniteSets, TLC

\* ----------------------------------------------------------------- bounds
\* Builder parameters, scaled down from the defaults of GithubBrokerBuilder::new.
MaxInflight == 2
PerRepoLimit == 1
QueueCap == 1
CacheCap == 1
CacheTtl == 2
BackoffBase == 1
BackoffMax == 2
\* How many callers drop their future.
MaxCancel == 1
\* How many adverse answers (failing, or carrying an exhausted rate limit)
\* the remote gives: under Spec and SpecBurst, and under SpecRetry.
MaxFaults == 1
MaxRetryFaults == 5
\* How many producers call enqueue: under Spec, SpecRetry, SpecBurst and
\* SpecLanes.
Producers == 2
RetryProducers == 1
BurstProducers == 3
LaneProducers == 3
SleepProducers == 2
SleepFaults == 2
KeyProducers == 3
\* The collector: jobs in the table, cycles run, max_concurrent_repos, and
\* the adverse answers of the remote during collection.
MaxJobs == 2
MaxCycles == 2
MaxConcurrentRepos == 2
CollectFaults == 1
MaxIssues == 2
MaxTime == 3
IngestDbFaults == 1
PreQueued == 10
MaxPoolLimit == 2
MaxPoolReset == 2
PoolFaults == 2
JoinProducers == 3
\* The reset time, from now, in the rate-limit headers of an exhausted token.
ResetAfter == 4

\* ------------------------------------------------------ program constants
MaxAttempts == 5
InitLimit == 5000
SecondaryPause == 3
WaitSlack == 1
NoTokenWait == 30
MaxShift == 8

\* the jitter fraction 0.2 as a ratio
JitterNum == 1
JitterDen == 5

\* The producers, numbered in order of arrival.
CallerSeq == <<"c1", "c2", "c3">>
Callers == {CallerSeq[i] : i \in DOMAIN CallerSeq}
Budgets == {"core", "search", "graphql"}
Priorities == <<"critical", "normal", "backfill">>
Tokens == <<"t1", "t2">>

None == "none"

Min(S) == CHOOSE x \in S : \A y \in S : x <= y
Max(S) == CHOOSE x \in S : \A y \in S : x >= y
Range(s) == {s[i] : i \in DOMAIN s}

\* ---------------------------------------------------------- request model
Req(m, p, q, b, h, ua) ==
    [method |-> m, path |-> p, query |-> q, body |-> b, hint |-> h, ua |-> ua]

\* The calls the producers make: issue listing, the same listing carrying a
\* search resource hint, a second listing of the same repository under the
\* search hint, a GraphQL POST, and a request without a user-agent.
Requests ==
    { Req("GET", <<"repos", "o", "n", "issues">>, "", "", None, TRUE),
      Req("GET", <<"repos", "o", "n", "issues">>, "", "", "search", TRUE),
      Req("GET", <<"repos", "o", "n", "pulls">>, "", "", "search", TRUE),
      Req("POST", <<"graphql">>, "", "q1", None, TRUE),
      Req("GET", <<"users", "alice">>, "", "", None, FALSE) }

\* Budget::classify: the resource hint wins, then the path.
Classify(path, hint) ==
    IF hint # None
    THEN (IF hint = "search" THEN "search"
          ELSE IF hint = "graphql" THEN "graphql" ELSE "core")
    ELSE IF path = <<"graphql">> THEN "graphql"
    ELSE IF Len(path) >= 2 /\ path[1] = "search" THEN "search"
    ELSE "core"

\* The first 16 hex characters of SHA-256(body), for the bodies "q1", "q2",
\* "ignored" and the empty body.
BodyDigest(body) ==
    IF body = "q1" THEN "c75de8c1b7c3ae52"
    ELSE IF body = "q2" THEN "bee98bf120e89063"
    ELSE IF body = "ignored" THEN "3514cf816e5407a3"
    ELSE "e3b0c44298fc1c14"

\* A fingerprint that leaves the body out for every method.
KeyWithoutBody(r) == <<r.method, r.path, r.query, "">>

\* GithubRequest::new: "{METHOD} {PATH}{?QUERY}", plus " body:<digest>" for
\* every method other than GET.  The query enters the key as written.
RequestKey(r) ==
    IF r.method # "GET"
    THEN <<r.method, r.path, r.query, BodyDigest(r.body)>>
    ELSE <<r.method, r.path, r.query, "">>

\* A search query, which falls into the search budget by its path.
SearchRequest == Req("GET", <<"search", "issues">>, "q=spam", "", None, TRUE)

AllRequests == Requests \cup {SearchRequest}

Keys == {RequestKey(r) : r \in AllRequests}
NoKey == <<>>

\* extract_repo_key: repos/{owner}/{name}[/...] gives "owner/name".
ExtractRepoKey(r) ==
    IF Len(r.path) >= 3 /\ r.path[1] = "repos"
    THEN <<r.path[2], r.path[3]>>
    ELSE NoKey

RepoKeys == {ExtractRepoKey(r) : r \in AllRequests} \ {NoKey}

\* Inner::cache_key: only GET requests have one.
CacheKey(r) == IF r.method = "GET" THEN RequestKey(r) ELSE NoKey

\* ------------------------------------------------------- remote responses
NoRl == [limit |-> -1, remaining |-> -1, reset |-> -1]
Exhausted == [limit |-> 1, remaining |-> 0, reset |-> ResetAfter]

Resp(net, st, etag, retry, rl, body) ==
    [net |-> net, status |-> st, etag |-> etag, retry |-> retry, rl |-> rl,
     body |-> body]

\* What the HTTP adapter can return: a transport error or a response.
Responses ==
    { Resp(TRUE, 0, None, -1, NoRl, ""),
      Resp(FALSE, 200, "x", -1, NoRl, "b1"),
      Resp(FALSE, 200, None, -1, Exhausted, "cost2"),
      Resp(FALSE, 304, None, -1, NoRl, ""),
      Resp(FALSE, 403, None, -1, NoRl, ""),
      Resp(FALSE, 404, None, -1, NoRl, ""),
      Resp(FALSE, 500, None, -1, Exhausted, ""),
      Resp(FALSE, 503, None, 1, NoRl, "") }

IsSuccess(st) == st >= 200 /\ st <= 299
IsClientError(st) == st >= 400 /\ st <= 499

\* parse_rate_limit: present only when all three headers parse.
ParseRateLimit(resp) == resp.rl
\* parse_retry_after
ParseRetryAfter(resp) == resp.retry

\* BrokerResponse::from_http
FromHttp(resp) ==
    [status |-> resp.status,
     headers |-> [etag |-> resp.etag, retry |-> resp.retry, rl |-> resp.rl],
     body |-> resp.body]

\* extract_graphql_cost: data.rateLimit.cost, at least 1, when the body has
\* it; 0 stands for a body without it.
ExtractGraphqlCost(body) == IF body = "cost2" THEN 2 ELSE 0

NoCached == [etag |-> None, body |-> "", status |-> 0,
             headers |-> [etag |-> None, retry |-> -1, rl |-> NoRl], age |-> 0]

\* ------------------------------------------------------------------ state
VARIABLES
    callers,    \* each enqueue future: position, request, cached entry, result,
                \* and the caller whose registration created its pending entry
    pending,    \* Inner::pending: fingerprint -> waiters, in arrival order
    queues,     \* the mpsc channel of each (budget, priority)
    sched,      \* each budget task: run_budget / process_work / execute_once
    tokens,     \* TokenPool: token -> budget -> {limit, remaining, reset}
    cache,      \* ResponseCache: LRU list, most recently used first
    inflight,   \* permits of Inner::inflight in use
    perRepo,    \* Inner::per_repo: repository -> permits in use
    env,        \* the configuration and the surroundings: max_inflight, the
                \* calls the producers make, how many producers are still to
                \* arrive, how many adverse answers the remote may still give
    jobs,       \* table collection_jobs: id -> status, failure_count,
                \* error_message and the repository the job names
    repositories, \* table repositories: the full names upserted
    cycle,      \* Collector::run_once: position, the jobs loaded and not yet
                \* marked, the number of cycles still to run
    tasks,      \* the tasks of the cycle's JoinSet: job id -> position, the
                \* job row as loaded, the enqueue future it waits on, the
                \* locals of process_repo and what it returned
    store       \* tables issues, users and collector_watermarks

\* The state of the collector service and of its tables.
collector == <<jobs, repositories, cycle, tasks, store>>

vars == <<callers, pending, queues, sched, tokens, cache, inflight, perRepo, env,
          collector>>

\* ------------------------------------------------------------- token pool
\* RateLimitState::new
NewRateLimitState == [limit |-> InitLimit, remaining |-> InitLimit, reset |-> 0]

\* The test of TokenPool::pick_token: remaining > 0 or reset_at <= now.
Eligible(rl) == rl.remaining > 0 \/ rl.reset <= 0

\* A score that looks at the remaining count alone.
MoreRemaining(a, b) == a.remaining > b.remaining

\* score a > score b, where score = remaining / max(limit, 1)
ScoreGreater(a, b) ==
    a.remaining * Max({b.limit, 1}) > b.remaining * Max({a.limit, 1})

NoPick == [best |-> None, next |-> -1]

\* The loop of pick_token over the tokens the pool holds, in pool order,
\* from token i on.
RECURSIVE PickLoop(_, _, _, _)
PickLoop(pool, b, i, acc) ==
    IF i > Len(Tokens) THEN acc
    ELSE IF Tokens[i] \notin DOMAIN pool THEN PickLoop(pool, b, i + 1, acc)
    ELSE LET t == Tokens[i]
             rl == pool[t][b]
             acc2 ==
                 IF Eligible(rl)
                 THEN IF acc.best = None \/ ScoreGreater(rl, pool[acc.best][b])
                      THEN [acc EXCEPT !.best = t]
                      ELSE acc
                 ELSE LET w == Max({rl.reset, 0})
                      IN  [acc EXCEPT !.next =
                               IF acc.next = -1 THEN w ELSE Min({acc.next, w})]
         IN  PickLoop(pool, b, i + 1, acc2)

\* A selection that hands out the first token whatever its state.
PickFirstToken(pool, b) == [kind |-> "token", token |-> Tokens[1], wait |-> 0]

\* TokenPool::pick_token: Token(t) or Wait(d).
PickToken(pool, b) ==
    LET acc == PickLoop(pool, b, 1, NoPick)
    IN  IF acc.best # None THEN [kind |-> "token", token |-> acc.best, wait |-> 0]
        ELSE IF acc.next # -1 THEN [kind |-> "wait", token |-> None, wait |-> acc.next]
        ELSE [kind |-> "wait", token |-> None, wait |-> NoTokenWait]

\* TokenPool::update with RateLimitState::update
TokenUpdate(pool, b, t, u) ==
    [pool EXCEPT ![t][b] = [limit |-> u.limit, remaining |-> u.remaining,
                            reset |-> u.reset]]

\* TokenPool::consume with RateLimitState::consume
TokenConsume(pool, b, t, cost) ==
    [pool EXCEPT ![t][b].remaining = Max({pool[t][b].remaining - cost, 0})]

\* ------------------------------------------------------------------ cache
\* A freshness test that still accepts an entry of age T.
FreshAtTtl(entry) == entry.age <= CacheTtl

\* CachedResponse::is_fresh
IsFresh(entry) == entry.age < CacheTtl

CacheIndex(c, k) ==
    IF \E i \in DOMAIN c : c[i].key = k
    THEN CHOOSE i \in DOMAIN c : c[i].key = k
    ELSE 0

Without(c, i) == SubSeq(c, 1, i - 1) \o SubSeq(c, i + 1, Len(c))

\* ResponseCache::get, the value: the entry when present and fresh.
CacheGet(c, k) ==
    LET i == CacheIndex(c, k)
    IN  IF i # 0 /\ IsFresh(c[i].entry) THEN c[i].entry ELSE NoCached

\* ResponseCache::get, the effect: LruCache::get makes the entry the most
\* recently used one, fresh or not.
CacheTouch(c, k) ==
    LET i == CacheIndex(c, k)
    IN  IF i = 0 THEN c ELSE <<c[i]>> \o Without(c, i)

\* ResponseCache::put: replace or insert as most recent, evicting the least
\* recently used entry of a full cache.
CachePut(c, k, v) ==
    LET i == CacheIndex(c, k)
        rest == IF i # 0 THEN Without(c, i)
                ELSE IF Len(c) >= Max({CacheCap, 1}) THEN SubSeq(c, 1, Len(c) - 1)
                ELSE c
    IN  <<[key |-> k, entry |-> v]>> \o rest

\* ---------------------------------------------------------------- backoff
Pow2(n) == IF n = 0 THEN 1 ELSE IF n = 1 THEN 2 ELSE IF n = 2 THEN 4
           ELSE IF n = 3 THEN 8 ELSE IF n = 4 THEN 16 ELSE IF n = 5 THEN 32
           ELSE IF n = 6 THEN 64 ELSE IF n = 7 THEN 128 ELSE 256

\* A backoff that doubles without a cap and without jitter.
UncappedDelays(base, attempt, max) == {base * Pow2(attempt)}

\* exponential_jitter_backoff: the durations it can return.
BackoffDelays(base, attempt, max) ==
    LET raw == base * Pow2(Min({attempt, MaxShift}))
        capped == IF raw > max THEN max ELSE raw
        jitter == (2 * capped * JitterNum + JitterDen) \div (2 * JitterDen)
    IN  {Max({capped + d, 0}) : d \in (0 - jitter)..jitter}

\* ---------------------------------------------------------------- records
NoReq == [inner |-> Req("", <<>>, "", "", None, FALSE), budget |-> None,
          priority |-> None, key |-> NoKey, inm |-> None]

\* GithubRequest::new
NewGithubRequest(r, p) ==
    [inner |-> r, budget |-> Classify(r.path, r.hint), priority |-> p,
     key |-> RequestKey(r), inm |-> None]

NoHeaders == [etag |-> None, retry |-> -1, rl |-> NoRl]
NoResult == [ok |-> FALSE, status |-> 0, headers |-> NoHeaders, body |-> "",
             msg |-> <<>>]
OkResult(br) == [ok |-> TRUE, status |-> br.status, headers |-> br.headers,
                 body |-> br.body, msg |-> <<>>]
ErrResult(text) == [ok |-> FALSE, status |-> 0, headers |-> NoHeaders,
                    body |-> "", msg |-> text]

\* Errors inside the broker: an HttpStatusError or any other anyhow error.
\* HttpStatusError::new leaves the endpoint empty.
HttpStatusError(st) == [kind |-> "http", status |-> st, text |-> "", endpoint |-> ""]
OtherError(text) == [kind |-> "other", status |-> 0, text |-> text, endpoint |-> ""]
NoError == [kind |-> None, status |-> 0, text |-> "", endpoint |-> ""]

\* Display of the error: "unexpected status {status}" when the endpoint is
\* empty, else "unexpected status {status} for {endpoint}"; any other error
\* shows its text.
ErrToString(e) ==
    IF e.kind # "http" THEN <<e.text>>
    ELSE IF e.endpoint = "" THEN <<"unexpected status", e.status>>
    ELSE <<"unexpected status", e.status, "for", e.endpoint>>

NoWork == [request |-> NoReq, key |-> NoKey, cached |-> NoCached]
NoResp == Resp(FALSE, -1, None, -1, NoRl, "")

IdleCaller == [pc |-> "idle", req |-> NoReq, cached |-> NoCached,
               result |-> NoResult, joined |-> None]

\* default weights of GithubBrokerBuilder::new
Weights == [core |-> <<4, 2, 1>>, search |-> <<2, 1, 0>>, graphql |-> <<3, 2, 1>>]

PrioIndex(p) == CHOOSE i \in 1..3 : Priorities[i] = p

\* A budget task blocked in the select of run_budget on its empty channels.
IdleSched == [pc |-> "select", lane |-> 0, cnt |-> 0, processed |-> FALSE,
              work |-> NoWork, attempt |-> 0, token |-> None, wait |-> -1,
              timer |-> 0, out |-> NoResult, err |-> NoError, resp |-> NoResp]

\* The broker as built, its budget tasks having found their channels empty.
BrokerBuilt ==
    /\ callers = [c \in Callers |-> IdleCaller]
    /\ pending = <<>>
    /\ queues = [b \in Budgets |-> [l \in 1..3 |-> <<>>]]
    /\ sched = [b \in Budgets |-> IdleSched]
    /\ tokens = [t \in Range(Tokens) |-> [b \in Budgets |-> NewRateLimitState]]
    /\ cache = <<>>
    /\ inflight = 0
    /\ perRepo = <<>>

Built ==
    /\ BrokerBuilt
    /\ repositories = {}
    /\ tasks = <<>>
    /\ store = [issues |-> {}, users |-> {}, watermarks |-> {}]

\* No collector runs beside the producers: no jobs, no cycle.
NoCycle == [pc |-> "idle", loaded |-> <<>>, left |-> 0]

NoCollector == jobs = <<>> /\ cycle = NoCycle

Call(r, p) == [req |-> r, priority |-> p]

Get(seg, hint) == Req("GET", <<"repos", "o", "n", seg>>, "", "", hint, TRUE)

\* The calls made: each request at normal priority, the plain issue listing
\* also at critical priority.
Calls ==
    {Call(r, "normal") : r \in Requests} \cup {Call(Get("issues", None), "critical")}

\* The calls of a burst on one lane: the two listings under the search hint.
BurstCalls == {Call(Get("issues", "search"), "normal"), Call(Get("pulls", "search"), "normal")}

\* Two producers, any call, any configured max_inflight.
Init ==
    /\ Built
    /\ NoCollector
    /\ \E m \in 1..MaxInflight :
          env = [maxInflight |-> m, menu |-> [c \in Callers |-> Calls], arrivals |-> Producers,
                 faults |-> MaxFaults]

\* One producer and a remote that keeps failing.
InitRetry ==
    /\ Built
    /\ NoCollector
    /\ env = [maxInflight |-> MaxInflight, menu |-> [c \in Callers |-> Calls],
              arrivals |-> RetryProducers,
              faults |-> MaxRetryFaults]

\* Three producers on one lane.
InitBurst ==
    /\ Built
    /\ NoCollector
    /\ env = [maxInflight |-> MaxInflight, menu |-> [c \in Callers |-> BurstCalls],
              arrivals |-> BurstProducers,
              faults |-> MaxFaults]

\* The calls of three producers on the lanes of the search budget, whose
\* weights are [2, 1, 0]: the first calls at critical or at backfill
\* priority, the second at critical or at normal priority, the third at
\* normal priority.
LaneCalls ==
    [c \in Callers |->
        IF c = CallerSeq[1]
        THEN {Call(Get("issues", "search"), "critical"),
              Call(Get("issues", "search"), "backfill")}
        ELSE IF c = CallerSeq[2]
        THEN {Call(Get("pulls", "search"), "critical"),
              Call(Get("pulls", "search"), "normal")}
        ELSE {Call(SearchRequest, "normal")}]

\* Three producers on the three lanes of one budget.
InitLanes ==
    /\ Built
    /\ NoCollector
    /\ env = [maxInflight |-> MaxInflight, menu |-> LaneCalls,
              arrivals |-> LaneProducers, faults |-> MaxFaults]

\* The calls of producers on different budgets: the first on core, the
\* second on search, the third on graphql.
SleepCalls ==
    [c \in Callers |->
        IF c = CallerSeq[1] THEN {Call(Get("issues", None), "normal")}
        ELSE IF c = CallerSeq[2] THEN {Call(SearchRequest, "normal")}
        ELSE {Call(Req("POST", <<"graphql">>, "", "q1", None, TRUE), "normal")}]

\* Producers on different budgets and a remote that exhausts the tokens,
\* under any configured max_inflight.
InitSleep ==
    /\ Built
    /\ NoCollector
    /\ \E m \in 1..MaxInflight :
          env = [maxInflight |-> m, menu |-> SleepCalls,
                 arrivals |-> SleepProducers, faults |-> SleepFaults]

\* Requests that differ in method, path, query or body.
KeyRequests ==
    {Req(m, p, q, b, None, TRUE) :
        m \in {"GET", "POST"}, p \in {<<"graphql">>, <<"repos", "o", "n">>},
        q \in {"", "q=spam", "a=1&b=2", "b=2&a=1"},
        b \in {"", "q1", "q2", "ignored"}}

\* Three callers that build any of these requests.
InitKeys ==
    /\ Built
    /\ NoCollector
    /\ env = [maxInflight |-> MaxInflight,
              menu |-> [c \in Callers |-> {Call(r, "normal") : r \in KeyRequests}],
              arrivals |-> KeyProducers, faults |-> 0]

\* ---------------------------------------------------------------- enqueue
HasPending(k) == k \in DOMAIN pending

\* LocalGithubBroker::enqueue up to the cache lookup: build the request
\* (rejecting one without a user-agent), look the GET up in the cache and
\* copy the entry's ETag to If-None-Match.
Intake(c, r, p) ==
    /\ callers[c].pc = "idle"
    /\ env.arrivals > 0
    /\ env' = [env EXCEPT !.arrivals = @ - 1]
    /\ \A i, j \in DOMAIN CallerSeq :
          i < j /\ CallerSeq[j] = c => callers[CallerSeq[i]].pc # "idle"
    /\ IF ~r.ua
       THEN /\ callers' = [callers EXCEPT ![c].pc = "done",
                               ![c].result = ErrResult(<<"user-agent header required">>)]
            /\ cache' = cache
       ELSE LET g == NewGithubRequest(r, p)
                ck == CacheKey(r)
                hit == IF ck # NoKey THEN CacheGet(cache, ck) ELSE NoCached
            IN  /\ cache' = IF ck # NoKey THEN CacheTouch(cache, ck) ELSE cache
                /\ callers' = [callers EXCEPT ![c].pc = "register",
                                   ![c].req = [g EXCEPT !.inm = hit.etag],
                                   ![c].cached = hit]
    /\ UNCHANGED <<pending, queues, sched, tokens, inflight, perRepo, collector>>

\* Inner::register_waiter: the pending map after c registers under key k.
RegisterWaiter(pend, k, c) ==
    IF k \in DOMAIN pend
    THEN [pend EXCEPT ![k] = Append(@, c)]
    ELSE [x \in DOMAIN pend \cup {k} |-> IF x = k THEN <<c>> ELSE pend[x]]

\* A coalescer that elects every caller as dispatcher.
DispatchAlways(pend, k) == TRUE

\* A coalescer that lets the first caller that joins an entry dispatch too.
DispatchSecond(pend, k) == ~(k \in DOMAIN pend) \/ Len(pend[k]) = 1

\* Inner::register_waiter, should_dispatch: true when the key was absent.
ShouldDispatch(pend, k) == ~(k \in DOMAIN pend)

Register(c) ==
    /\ callers[c].pc = "register"
    /\ LET k == callers[c].req.key
       IN  /\ pending' = RegisterWaiter(pending, k, c)
           /\ callers' = [callers EXCEPT
                  ![c].pc = IF ShouldDispatch(pending, k) THEN "send" ELSE "waiting",
                  ![c].joined = Head(RegisterWaiter(pending, k, c)[k])]
    /\ UNCHANGED <<queues, sched, tokens, cache, inflight, perRepo, env, collector>>

QueueOf(g) == queues[g.budget][PrioIndex(g.priority)]
QueueFull(g) == Len(QueueOf(g)) >= QueueCap

\* LocalGithubBroker::dispatch: the send completes when the channel has room.
Dispatch(c) ==
    /\ callers[c].pc = "send"
    /\ ~QueueFull(callers[c].req)
    /\ LET g == callers[c].req
           w == [request |-> g, key |-> g.key, cached |-> callers[c].cached]
       IN  queues' = [queues EXCEPT ![g.budget][PrioIndex(g.priority)] = Append(@, w)]
    /\ callers' = [callers EXCEPT ![c].pc = "waiting"]
    /\ UNCHANGED <<pending, sched, tokens, cache, inflight, perRepo, env, collector>>

\* The caller drops its future at a point where it is suspended: before
\* registering, in the send on a full channel, or on its one-shot receiver.
Cancel(c) ==
    /\ Cardinality({x \in Callers : callers[x].pc = "cancelled"}) < MaxCancel
    /\ \/ callers[c].pc \in {"register", "waiting"}
       \/ callers[c].pc = "send" /\ QueueFull(callers[c].req)
    /\ callers' = [callers EXCEPT ![c].pc = "cancelled"]
    /\ UNCHANGED <<pending, queues, sched, tokens, cache, inflight, perRepo, env, collector>>

\* ------------------------------------------------------------- run_budget
LanesFrom(b, l) == {x \in l..3 : Weights[b][x] > 0}

\* Where the loop of run_budget stands once the lanes before l are done: at
\* the next lane of positive weight, else at the top of the next cycle when
\* this one processed something, else in the blocking select.
NextLane(b, l, processed) ==
    IF LanesFrom(b, l) # {}
    THEN [pc |-> "scan", lane |-> Min(LanesFrom(b, l)), cnt |-> 0,
          processed |-> processed]
    ELSE IF processed /\ LanesFrom(b, 1) # {}
    THEN [pc |-> "scan", lane |-> Min(LanesFrom(b, 1)), cnt |-> 0,
          processed |-> FALSE]
    ELSE [pc |-> "select", lane |-> 0, cnt |-> 0, processed |-> FALSE]

At(s, pos) == [s EXCEPT !.pc = pos.pc, !.lane = pos.lane, !.cnt = pos.cnt,
                        !.processed = pos.processed]

\* A loop that moves to the next lane after every item, whatever the weight.
OnePerLane(b, s) == NextLane(b, s.lane + 1, TRUE)

\* A loop that starts its cycle over after every item.
RestartCycle(b, s) == NextLane(b, 1, FALSE)

\* Where run_budget stands when process_work returns: lane 0 marks an item
\* taken by the select, after which the loop starts over.
AfterWork(b, s) ==
    IF s.lane = 0 THEN NextLane(b, 1, FALSE)
    ELSE IF s.cnt < Weights[b][s.lane]
    THEN [pc |-> "scan", lane |-> s.lane, cnt |-> s.cnt, processed |-> TRUE]
    ELSE NextLane(b, s.lane + 1, TRUE)

\* One try_recv of the weighted cycle.
TryRecv(b) ==
    LET s == sched[b]
        q == queues[b][s.lane]
    IN  /\ s.pc = "scan"
        /\ IF q # <<>>
           THEN /\ queues' = [queues EXCEPT ![b][s.lane] = Tail(q)]
                /\ sched' = [sched EXCEPT ![b] =
                       [s EXCEPT !.pc = "permit", !.cnt = s.cnt + 1,
                                 !.processed = TRUE, !.work = Head(q),
                                 !.attempt = 0]]
           ELSE /\ queues' = queues
                /\ sched' = [sched EXCEPT ![b] =
                       At(s, NextLane(b, s.lane + 1, s.processed))]
        /\ UNCHANGED <<callers, pending, tokens, cache, inflight, perRepo, env, collector>>

\* The select of run_budget: any lane that has an item, whatever its weight.
Select(b) ==
    LET s == sched[b]
    IN  /\ s.pc = "select"
        /\ \E l \in 1..3 :
              /\ queues[b][l] # <<>>
              /\ queues' = [queues EXCEPT ![b][l] = Tail(@)]
              /\ sched' = [sched EXCEPT ![b] =
                     [s EXCEPT !.pc = "permit", !.lane = 0,
                               !.work = Head(queues[b][l]), !.attempt = 0]]
        /\ UNCHANGED <<callers, pending, tokens, cache, inflight, perRepo, env, collector>>

\* ----------------------------------------------------------- execute_once
RepoOf(s) == ExtractRepoKey(s.work.request.inner)

\* A per-repository map that hands out a new semaphore on every call.
FreshSemaphore(map, repo) == 0

\* Inner::acquire_per_repo: the permits in use on the repository's
\* semaphore, which is created on first use and then shared.
AcquirePerRepo(map, repo) == IF repo \in DOMAIN map THEN map[repo] ELSE 0

\* A semaphore whose permits are never given back.
KeepRepo(map, repo, n) ==
    [x \in DOMAIN map \cup {repo} |->
        IF x # repo THEN map[x]
        ELSE IF repo \in DOMAIN map /\ map[repo] > n THEN map[repo] ELSE n]

SetRepo(map, repo, n) ==
    [x \in DOMAIN map \cup {repo} |-> IF x = repo THEN n ELSE map[x]]

\* A semaphore that never runs out of permits.
PermitAlways(used, capacity) == TRUE

\* Semaphore::acquire_owned returns when fewer permits are out than the
\* semaphore has.
PermitFree(used, capacity) == used < capacity

\* process_work starts an attempt; execute_once takes a global permit.
AcquirePermit(b) ==
    LET s == sched[b]
    IN  /\ s.pc = "permit"
        /\ PermitFree(inflight, env.maxInflight)
        /\ inflight' = inflight + 1
        /\ sched' = [sched EXCEPT ![b] =
               [s EXCEPT !.attempt = s.attempt + 1,
                         !.pc = IF RepoOf(s) = NoKey THEN "pick" ELSE "repo"]]
        /\ UNCHANGED <<callers, pending, queues, tokens, cache, perRepo, env, collector>>

\* execute_once takes the permit of the request's repository.
AcquireRepo(b) ==
    LET s == sched[b]
        used == AcquirePerRepo(perRepo, RepoOf(s))
    IN  /\ s.pc = "repo"
        /\ PermitFree(used, PerRepoLimit)
        /\ perRepo' = SetRepo(perRepo, RepoOf(s), used + 1)
        /\ sched' = [sched EXCEPT ![b].pc = "pick"]
        /\ UNCHANGED <<callers, pending, queues, tokens, cache, inflight, env, collector>>

\* The token loop of execute_once: a token starts the HTTP call, a Wait(d)
\* sleeps d + 1 s and selects again.
SelectToken(b) ==
    LET s == sched[b]
        sel == PickToken(tokens, b)
    IN  /\ s.pc = "pick"
        /\ sched' = [sched EXCEPT ![b] =
               IF sel.kind = "token"
               THEN [s EXCEPT !.pc = "http", !.token = sel.token]
               ELSE [s EXCEPT !.pc = "ratesleep", !.wait = sel.wait,
                              !.timer = sel.wait + WaitSlack]]
        /\ UNCHANGED <<callers, pending, queues, tokens, cache, inflight, perRepo, env, collector>>

\* process_work on an error: finalize on a client error other than 403/429
\* or on the last attempt, else sleep the backoff and try again.
RetryAllowed(err) ==
    ~(err.kind = "http" /\ IsClientError(err.status)
        /\ err.status # 403 /\ err.status # 429)

\* A retry loop that never gives up.
RetryAlways(s, err) == {[s EXCEPT !.pc = "backoff", !.err = err, !.timer = 1]}

\* A retry that hands the budget task back to its channels for the time of
\* the backoff.
RetryLater(s, err) == {[s EXCEPT !.pc = "select", !.err = err, !.timer = 0]}

OnError(s, err) ==
    IF ~RetryAllowed(err) \/ s.attempt >= MaxAttempts
    THEN {[s EXCEPT !.pc = "finish", !.err = err, !.timer = 0]}
    ELSE {[s EXCEPT !.pc = "backoff", !.err = err, !.timer = d] :
            d \in BackoffDelays(BackoffBase, s.attempt - 1, BackoffMax)}

\* A cache that takes every successful response.
CacheAny(req, br) == TRUE

\* Whether execute_once writes the response to the cache.
Cacheable(req, br) == req.inner.method = "GET" /\ br.headers.etag # None

\* What a successful call costs the token.
Cost(b, br) ==
    IF b = "graphql" /\ ExtractGraphqlCost(br.body) # 0
    THEN ExtractGraphqlCost(br.body) ELSE 1

\* An executor that hands the 304 itself to the caller.
FromNotModified(entry) == [status |-> 304, headers |-> NoHeaders, body |-> ""]

\* The result execute_once returns for 304 with a cached entry.
FromCached(entry) ==
    [status |-> entry.status, headers |-> entry.headers, body |-> entry.body]

\* An answer that execute_once turns into an error, or that carries
\* rate-limit headers.
Adverse(s, resp) ==
    \/ resp.net
    \/ ~(IsSuccess(resp.status) \/ (resp.status = 304 /\ s.work.cached # NoCached))
    \/ resp.rl # NoRl

\* The HTTP adapter returns: the permits are released, the rate-limit
\* headers update the token, and the response is classified.
HttpReturn(b, resp) ==
    LET s == sched[b]
        req == s.work.request
        repo == RepoOf(s)
        u == ParseRateLimit(resp)
        pool1 == IF ~resp.net /\ u # NoRl
                 THEN TokenUpdate(tokens, b, s.token, u) ELSE tokens
        br == FromHttp(resp)
        s1 == [s EXCEPT !.resp = resp, !.wait = -1]
    IN  /\ s.pc = "http"
        /\ IF Adverse(s, resp)
           THEN env.faults > 0 /\ env' = [env EXCEPT !.faults = @ - 1]
           ELSE env' = env
        /\ inflight' = inflight - 1
        /\ perRepo' = IF repo = NoKey THEN perRepo
                      ELSE SetRepo(perRepo, repo, AcquirePerRepo(perRepo, repo) - 1)
        /\ IF resp.net
           THEN /\ \E s2 \in OnError(s1, OtherError("network")) :
                      sched' = [sched EXCEPT ![b] = s2]
                /\ tokens' = pool1
                /\ cache' = cache
           ELSE IF resp.status = 304 /\ s.work.cached # NoCached
           THEN /\ sched' = [sched EXCEPT ![b] =
                       [s1 EXCEPT !.pc = "finish",
                                  !.out = OkResult(FromCached(s.work.cached))]]
                /\ tokens' = pool1
                /\ cache' = cache
           ELSE IF IsSuccess(resp.status)
           THEN /\ sched' = [sched EXCEPT ![b] =
                       [s1 EXCEPT !.pc = "finish", !.out = OkResult(br)]]
                /\ tokens' = TokenConsume(pool1, b, s.token, Cost(b, br))
                /\ cache' = IF Cacheable(req, br)
                            THEN CachePut(cache, req.key,
                                     [etag |-> br.headers.etag, body |-> br.body,
                                      status |-> br.status, headers |-> br.headers,
                                      age |-> 0])
                            ELSE cache
           ELSE IF ParseRetryAfter(resp) # -1
           THEN /\ sched' = [sched EXCEPT ![b] =
                       [s1 EXCEPT !.pc = "pause", !.err = OtherError("retry after"),
                                  !.timer = ParseRetryAfter(resp) + WaitSlack]]
                /\ tokens' = pool1
                /\ cache' = cache
           ELSE IF resp.status = 403 \/ resp.status = 429
           THEN /\ sched' = [sched EXCEPT ![b] =
                       [s1 EXCEPT !.pc = "pause",
                                  !.err = OtherError("secondary rate limit"),
                                  !.timer = SecondaryPause]]
                /\ tokens' = pool1
                /\ cache' = cache
           ELSE /\ \E s2 \in OnError(s1, HttpStatusError(resp.status)) :
                      sched' = [sched EXCEPT ![b] = s2]
                /\ tokens' = pool1
                /\ cache' = cache
        /\ UNCHANGED <<callers, pending, queues, collector>>

\* A sleep of the budget task ends: the rate-limit wait selects again, the
\* Retry-After or secondary-limit pause returns its error to process_work,
\* the backoff starts the next attempt.
Wake(b) ==
    LET s == sched[b]
    IN  /\ s.pc \in {"ratesleep", "pause", "backoff"}
        /\ s.timer = 0
        /\ IF s.pc = "ratesleep"
           THEN sched' = [sched EXCEPT ![b].pc = "pick"]
           ELSE IF s.pc = "pause"
           THEN \E s2 \in OnError(s, s.err) : sched' = [sched EXCEPT ![b] = s2]
           ELSE sched' = [sched EXCEPT ![b] =
                    [s EXCEPT !.pc = "permit", !.err = NoError, !.resp = NoResp]]
        /\ UNCHANGED <<callers, pending, queues, tokens, cache, inflight, perRepo, env, collector>>

\* ----------------------------------------------------------------- finish
\* BrokerResponse::into_response, and the error text as the waiter gets it.
IntoResponse(res) ==
    [ok |-> res.ok, status |-> res.status, headers |-> res.headers,
     body |-> res.body, msg |-> res.msg]

\* A fan-out that answers only the first waiter with the result.
FanoutFirstOnly(s, i) ==
    IF i = 1 THEN (IF s.err.kind = None THEN s.out ELSE ErrResult(ErrToString(s.err)))
    ELSE ErrResult(<<"dropped">>)

\* What Inner::finish sends to the waiter at position i of the entry.
Fanout(s, i) ==
    IF s.err.kind = None THEN s.out ELSE ErrResult(ErrToString(s.err))

WaitersOf(pend, k) == IF k \in DOMAIN pend THEN pend[k] ELSE <<>>

\* Inner::finish: remove the entry and send the result to every waiter; a
\* waiter whose receiver was dropped is skipped.  Then process_work returns.
Finish(b) ==
    LET s == sched[b]
        k == s.work.key
        ws == WaitersOf(pending, k)
    IN  /\ s.pc = "finish"
        /\ pending' = [x \in DOMAIN pending \ {k} |-> pending[x]]
        /\ callers' = [c \in Callers |->
               IF \E i \in DOMAIN ws : ws[i] = c /\ callers[c].pc = "waiting"
               THEN LET i == CHOOSE i \in DOMAIN ws : ws[i] = c
                    IN  [callers[c] EXCEPT !.pc = "done",
                             !.result = IntoResponse(Fanout(s, i))]
               ELSE callers[c]]
        /\ sched' = [sched EXCEPT ![b] = At(IdleSched, AfterWork(b, s))]
        /\ UNCHANGED <<queues, tokens, cache, inflight, perRepo, env, collector>>

\* ------------------------------------------------------------------- time
Dec(n) == IF n > 0 THEN n - 1 ELSE n

\* One unit of time passes: sleeps and reset times come nearer, cache
\* entries age (an age of CacheTtl or more is stale).
Tick ==
    /\ sched' = [b \in Budgets |->
           [sched[b] EXCEPT !.timer = Dec(@), !.wait = Dec(@)]]
    /\ tokens' = [t \in DOMAIN tokens |-> [b \in Budgets |->
           [tokens[t][b] EXCEPT !.reset = Dec(@)]]]
    /\ cache' = [i \in DOMAIN cache |->
           [cache[i] EXCEPT !.entry.age = Min({@ + 1, CacheTtl})]]
    /\ UNCHANGED <<callers, pending, queues, inflight, perRepo, env, collector>>

Next ==
    \/ \E c \in Callers : \E call \in env.menu[c] : Intake(c, call.req, call.priority)
    \/ \E c \in Callers : Register(c)
    \/ \E c \in Callers : Dispatch(c)
    \/ \E c \in Callers : Cancel(c)
    \/ \E b \in Budgets : TryRecv(b)
    \/ \E b \in Budgets : Select(b)
    \/ \E b \in Budgets : AcquirePermit(b)
    \/ \E b \in Budgets : AcquireRepo(b)
    \/ \E b \in Budgets : SelectToken(b)
    \/ \E b \in Budgets, resp \in Responses : HttpReturn(b, resp)
    \/ \E b \in Budgets : Wake(b)
    \/ \E b \in Budgets : Finish(b)
    \/ Tick

Spec == Init /\ [][Next]_vars

SpecRetry == InitRetry /\ [][Next]_vars

SpecBurst == InitBurst /\ [][Next]_vars

SpecLanes == InitLanes /\ [][Next]_vars

SpecSleep == InitSleep /\ [][Next]_vars

\* ============================================================ collector
\* get_pending(100) of run_once
PendingLimit == 100

JobIds == 1..MaxJobs

\* The repositories the jobs name, all of owner "o"; the seed of a job is
\* the owner and the name of its row.
SeedNames == <<"n", "m", "k", "l">>
SeedOf(j) == [owner |-> jobs[j].owner, name |-> jobs[j].name]
FullName(seed) == <<seed.owner, seed.name>>

\* str::to_lowercase on the names of the model.
LowerCase(x) == IF x = "N" THEN "n" ELSE IF x = "O" THEN "o" ELSE x
Lower(name) == [i \in DOMAIN name |-> LowerCase(name[i])]

\* A message: its text, the first three-digit number in it (0 when it has
\* none) and what follows its last " for " (<<>> when it has none).
Msg(text, status, endpoint) == [text |-> text, status |-> status, endpoint |-> endpoint]
NoMsg == Msg("", 0, <<>>)

\* The message of an error returned by enqueue, as the collector reads it.
MsgOf(t) ==
    IF Len(t) >= 4 THEN Msg(t[1], t[2], t[4])
    ELSE IF Len(t) >= 2 THEN Msg(t[1], t[2], <<>>)
    ELSE Msg(t[1], 0, <<>>)

\* An anyhow error: the concrete type a downcast finds in its chain (none
\* for an error made from a message), and the messages of its chain, the
\* outermost first.
AnyhowError(m) == [type |-> None, status |-> 0, endpoint |-> <<>>, chain |-> <<m>>]

\* GithubApiError::Http: "github api error: {status} for {endpoint}"
GithubApiError(st, endpoint) ==
    [type |-> "api", status |-> st, endpoint |-> endpoint,
     chain |-> <<Msg("github api error", st, endpoint)>>]

\* A mismatch reported as an error made from a message.
SeedMismatchUntyped == AnyhowError(Msg("seed mismatch", 0, <<>>))

\* SeedMismatchError
SeedMismatchError ==
    [type |-> "seed_mismatch", status |-> 0, endpoint |-> <<>>,
     chain |-> <<Msg("seed mismatch", 0, <<>>)>>]

\* anyhow's with_context
WithContext(m, err) == [err EXCEPT !.chain = <<m>> \o @]

\* Display of an anyhow error: the outermost message.
ErrorToString(err) == err.chain[1]

Success(body) == [ok |-> TRUE, body |-> body, err |-> AnyhowError(NoMsg)]
Failure(err) == [ok |-> FALSE, body |-> "", err |-> err]

\* BrokerGithubClient::get_json on what enqueue returned.  The error of
\* enqueue is made from a message, so no HttpStatusError is found in it.
GetJson(res, endpoint) ==
    IF ~res.ok THEN Failure(AnyhowError(MsgOf(res.msg)))
    ELSE IF IsSuccess(res.status) THEN Success(res.body)
    ELSE IF res.status = 304
    THEN Failure(AnyhowError(Msg("received 304 without cached entity", 304, <<>>)))
    ELSE Failure(GithubApiError(res.status, endpoint))

\* The repository a response body describes, <<>> for a body that is not a
\* repository payload.
RepoPayload(body) ==
    IF body = "b1" THEN <<"o", "n">> ELSE IF body = "b2" THEN <<"o", "k">> ELSE <<>>

\* A process_repo that takes whatever repository the fetch returned.
FetchRepoUnguarded(seed, res) ==
    LET r == GetJson(res, <<"repos", seed.owner, seed.name>>)
        ctx == Msg("fetching repo", 0, <<>>)
    IN  IF ~r.ok THEN Failure(WithContext(ctx, r.err))
        ELSE IF RepoPayload(r.body) = <<>>
        THEN Failure(WithContext(ctx, AnyhowError(Msg("invalid payload", 0, <<>>))))
        ELSE r

\* process_repo up to the upsert: fetch_repo under the context "fetching
\* repo {name}", then the comparison, in lower case, of the fetched full
\* name with the seed.
FetchRepo(seed, res) ==
    LET r == GetJson(res, <<"repos", seed.owner, seed.name>>)
        ctx == Msg("fetching repo", 0, <<>>)
    IN  IF ~r.ok THEN Failure(WithContext(ctx, r.err))
        ELSE IF RepoPayload(r.body) = <<>>
        THEN Failure(WithContext(ctx, AnyhowError(Msg("invalid payload", 0, <<>>))))
        ELSE IF Lower(RepoPayload(r.body)) # Lower(FullName(seed))
        THEN Failure(SeedMismatchError)
        ELSE r

\* status_from_error: the status of a typed error in the chain, else the
\* first status read from a message of the chain.
StatusFromError(err) ==
    IF err.type = "api" THEN err.status
    ELSE LET hits == {i \in DOMAIN err.chain : err.chain[i].status # 0}
         IN  IF hits = {} THEN 0 ELSE err.chain[Min(hits)].status

\* endpoint_from_error: the endpoint of a GithubApiError in the chain, else
\* the first endpoint read from a message of the chain.
EndpointFromError(err) ==
    LET hits == {i \in DOMAIN err.chain : err.chain[i].endpoint # <<>>}
    IN  IF hits # {} THEN err.chain[Min(hits)].endpoint
        ELSE IF err.type = "api" THEN err.endpoint ELSE <<>>

\* The decimal text of a status code.
CodeText(code) ==
    IF code = 403 THEN "403" ELSE IF code = 404 THEN "404"
    ELSE IF code = 410 THEN "410" ELSE "451"

\* message.contains("<code>"): the digits can be the status of the message
\* or a segment of its endpoint, such as an issue number.
Contains(m, code) ==
    m.status = code \/ \E i \in DOMAIN m.endpoint : m.endpoint[i] = CodeText(code)

\* is_permanent_error
IsPermanentError(err) ==
    LET st == StatusFromError(err)
        ep == EndpointFromError(err)
        m == ErrorToString(err)
    IN  IF err.type = "seed_mismatch" THEN TRUE
        ELSE IF st = 404 /\ Len(ep) = 3 /\ ep[1] = "repos" THEN TRUE
        ELSE IF st \in {403, 451, 410} THEN TRUE
        ELSE IF Contains(m, 404)
        THEN \/ m.text = "fetching repo"
             \/ /\ m.text = "github api error" /\ m.status = 404
                /\ \E i \in DOMAIN m.endpoint :
                      m.endpoint[i] = "repos" /\ i < Len(m.endpoint)
                /\ \A i \in DOMAIN m.endpoint :
                      m.endpoint[i] \notin {"issues", "comments"}
        ELSE Contains(m, 403) \/ Contains(m, 451) \/ Contains(m, 410)

\* A job table that leaves the counters and the message alone.
UpdateStatusOnly(row, status, m) ==
    [row EXCEPT !.status = IF status = "failed" THEN "pending" ELSE status]

\* PgCollectionJobRepository::update
UpdateJob(row, status, m) ==
    IF status = "completed"
    THEN [row EXCEPT !.status = status, !.error_message = NoMsg, !.failure_count = 0]
    ELSE IF status = "failed"
    THEN [row EXCEPT !.status = "pending", !.error_message = m,
                     !.failure_count = @ + 1]
    ELSE [row EXCEPT !.status = status, !.error_message = m]

\* A query that returns every job.
GetAll(tbl, limit) ==
    LET n == Cardinality(DOMAIN tbl)
    IN  [i \in 1..n |-> [id |-> i, row |-> tbl[i]]]

\* PgCollectionJobRepository::get_pending: the pending jobs in creation
\* order (all jobs have the same priority), at most limit of them.
RECURSIVE PendingFrom(_, _)
PendingFrom(tbl, j) ==
    IF j \notin DOMAIN tbl THEN <<>>
    ELSE (IF tbl[j].status = "pending" THEN <<[id |-> j, row |-> tbl[j]]>> ELSE <<>>)
         \o PendingFrom(tbl, j + 1)

GetPending(tbl, limit) ==
    LET all == PendingFrom(tbl, 1)
    IN  SubSeq(all, 1, Min({limit, Len(all)}))

\* run_once loads the pending jobs.
LoadPending ==
    /\ cycle.pc = "idle"
    /\ cycle.left > 0
    /\ cycle' = [pc |-> "mark", loaded |-> GetPending(jobs, PendingLimit),
                 left |-> cycle.left - 1]
    /\ UNCHANGED <<callers, pending, queues, sched, tokens, cache, inflight,
                   perRepo, env, jobs, repositories, tasks, store>>

\* A task as spawned: the job row as loaded, and the locals of
\* process_repo (repo_row.full_name, the watermark read, newest_ts, the
\* since of the last listing request, cursor, whether the page has a next
\* cursor, the items of the page not yet handled, user_cache), and whether
\* the run wrote the watermark.  A timestamp
\* of 0 stands for none.
NewTask(row) ==
    [pc |-> "spawned", job |-> row, caller |-> None, result |-> Success(""),
     repo |-> <<>>, watermark |-> 0, newest |-> 0, asked |-> -1, page |-> 1,
     more |-> FALSE, items |-> <<>>, users |-> {}, wrote |-> FALSE]

\* The loop of run_once: mark_in_progress on the next loaded job and spawn
\* its task, or skip the job when the store fails; after the last one wait
\* for the tasks.
MarkInProgress ==
    /\ cycle.pc = "mark"
    /\ IF cycle.loaded = <<>>
       THEN /\ cycle' = [cycle EXCEPT !.pc = "join"]
            /\ UNCHANGED <<jobs, tasks, env>>
       ELSE LET job == Head(cycle.loaded)
            IN  /\ cycle' = [cycle EXCEPT !.loaded = Tail(@)]
                /\ \/ /\ jobs' = [jobs EXCEPT ![job.id].status = "in_progress"]
                      /\ tasks' = [j \in DOMAIN tasks \cup {job.id} |->
                             IF j = job.id THEN NewTask(job.row) ELSE tasks[j]]
                      /\ env' = env
                   \/ /\ env.dbFaults > 0
                      /\ env' = [env EXCEPT !.dbFaults = @ - 1]
                      /\ UNCHANGED <<jobs, tasks>>
    /\ UNCHANGED <<callers, pending, queues, sched, tokens, cache, inflight,
                   perRepo, repositories, store>>

\* A semaphore with a permit for every job.
PermitPerJob(k) == MaxJobs

\* The permits of the cycle's semaphore: max_concurrent_repos.max(1)
RepoPermits(k) == Max({k, 1})

\* The tasks that hold a permit: from acquire_owned to the end of the task.
Running == {j \in DOMAIN tasks : tasks[j].pc \notin {"spawned", "done"}}

\* The enqueue futures no task has used yet.
FreeCallers ==
    {i \in DOMAIN CallerSeq :
        callers[CallerSeq[i]].pc = "idle" /\ env.menu[CallerSeq[i]] = {}}

\* A task gets a permit of the cycle's semaphore and process_repo calls
\* get_repo: GET repos/{owner}/{name} at critical priority.
StartTask(j) ==
    /\ j \in DOMAIN tasks
    /\ tasks[j].pc = "spawned"
    /\ Cardinality(Running) < RepoPermits(env.maxRepos)
    /\ FreeCallers # {}
    /\ LET c == CallerSeq[Min(FreeCallers)]
           seed == SeedOf(j)
           r == Req("GET", <<"repos", seed.owner, seed.name>>, "", "", None, TRUE)
       IN  /\ env' = [env EXCEPT !.menu[c] = {Call(r, "critical")},
                                 !.arrivals = @ + 1]
           /\ tasks' = [tasks EXCEPT ![j].pc = "fetch", ![j].caller = c]
    /\ UNCHANGED <<callers, pending, queues, sched, tokens, cache, inflight,
                   perRepo, jobs, repositories, cycle, store>>

\* The end of a task: the job is updated to completed, or to error or
\* failed with the message of the error; when the update fails the task
\* logs a warning and ends.
JobEnd(j, res) ==
    LET status == IF res.ok THEN "completed"
                  ELSE IF IsPermanentError(res.err) THEN "error" ELSE "failed"
        m == IF res.ok THEN NoMsg ELSE ErrorToString(res.err)
    IN  /\ tasks' = [tasks EXCEPT ![j].pc = "done", ![j].result = res]
        /\ \/ /\ jobs' = [jobs EXCEPT ![j] = UpdateJob(@, status, m)]
              /\ env' = env
           \/ /\ env.dbFaults > 0
              /\ env' = [env EXCEPT !.dbFaults = @ - 1]
              /\ jobs' = jobs

\* get_repo returns to process_repo: on success the repository row is
\* upserted and the ingestion goes on, on failure the task ends.
FetchReturns(j) ==
    /\ j \in DOMAIN tasks
    /\ tasks[j].pc = "fetch"
    /\ callers[tasks[j].caller].pc = "done"
    /\ LET res == FetchRepo(SeedOf(j), callers[tasks[j].caller].result)
       IN  IF res.ok
           THEN /\ repositories' = repositories \cup {RepoPayload(res.body)}
                /\ tasks' = [tasks EXCEPT ![j].pc = "ingest"]
                /\ jobs' = jobs
                /\ env' = env
           ELSE /\ JobEnd(j, res)
                /\ repositories' = repositories
    /\ UNCHANGED <<callers, pending, queues, sched, tokens, cache, inflight,
                   perRepo, cycle, store>>

\* How the rest of process_repo ends: it completes, or a later request
\* fails and its error comes back without context.
IngestOutcomes ==
    {Success(""), Failure(AnyhowError(Msg("unexpected status", 500, <<>>)))}

IngestReturns(j) ==
    /\ j \in DOMAIN tasks
    /\ tasks[j].pc = "ingest"
    /\ \E res \in IngestOutcomes : JobEnd(j, res)
    /\ UNCHANGED <<callers, pending, queues, sched, tokens, cache, inflight,
                   perRepo, repositories, cycle, store>>

\* run_once has joined every task of the cycle.
JoinAll ==
    /\ cycle.pc = "join"
    /\ \A j \in DOMAIN tasks : tasks[j].pc = "done"
    /\ cycle' = [cycle EXCEPT !.pc = "idle"]
    /\ tasks' = <<>>
    /\ UNCHANGED <<callers, pending, queues, sched, tokens, cache, inflight,
                   perRepo, env, jobs, repositories, store>>

JobRow(j, status, count) ==
    [status |-> status, failure_count |-> count,
     error_message |-> IF status = "error" \/ count > 0
                       THEN Msg("unexpected status", 500, <<>>) ELSE NoMsg,
     owner |-> "o", name |-> SeedNames[j]]

\* The collector over a built broker: the jobs of the table are pending,
\* completed or in error, with no or one failure counted.
InitCollect ==
    /\ Built
    /\ env = [maxInflight |-> MaxInflight, menu |-> [c \in Callers |-> {}],
              arrivals |-> 0, faults |-> CollectFaults,
              maxRepos |-> MaxConcurrentRepos, dbFaults |-> 0]
    /\ \E st \in [JobIds -> {"pending", "completed", "error"}],
          n \in [JobIds -> 0..1] :
          jobs = [j \in JobIds |-> JobRow(j, st[j], n[j])]
    /\ cycle = [pc |-> "idle", loaded |-> <<>>, left |-> MaxCycles]

\* The collector's cycles and the broker that serves its requests; the
\* tasks await their futures, so no caller cancels.
NextCollect ==
    \/ LoadPending
    \/ MarkInProgress
    \/ \E j \in JobIds : StartTask(j)
    \/ \E j \in JobIds : FetchReturns(j)
    \/ \E j \in JobIds : IngestReturns(j)
    \/ JoinAll
    \/ \E c \in Callers : \E call \in env.menu[c] : Intake(c, call.req, call.priority)
    \/ \E c \in Callers : Register(c)
    \/ \E c \in Callers : Dispatch(c)
    \/ \E b \in Budgets : TryRecv(b)
    \/ \E b \in Budgets : Select(b)
    \/ \E b \in Budgets : AcquirePermit(b)
    \/ \E b \in Budgets : AcquireRepo(b)
    \/ \E b \in Budgets : SelectToken(b)
    \/ \E b \in Budgets, resp \in Responses : HttpReturn(b, resp)
    \/ \E b \in Budgets : Wake(b)
    \/ \E b \in Budgets : Finish(b)
    \/ Tick

SpecCollect == InitCollect /\ [][NextCollect]_vars

\* ----------------------------------------------------- the classifier alone
\* Errors process_repo can return: a GithubApiError for a status and an
\* endpoint, bare or under the context of the repository fetch, a seed
\* mismatch, and errors made from a message.
ClassifierInputs ==
    LET statuses == {403, 404, 410, 429, 451, 500}
        endpoints ==
            { <<"repos", "o", "n">>, <<"repos", "o", "n", "issues">>,
              <<"repos", "o", "n", "issues", "comments">>,
              <<"repos", "o", "n", "issues", "403", "comments">>,
              <<"repos", "o", "n", "pulls">>, <<"users", "x">> }
    IN  {GithubApiError(st, ep) : st \in statuses, ep \in endpoints}
        \cup {WithContext(Msg("fetching repo", 0, <<>>), GithubApiError(st, ep)) :
                st \in statuses, ep \in endpoints}
        \cup {SeedMismatchError, AnyhowError(Msg("network", 0, <<>>))}
        \cup {AnyhowError(MsgOf(<<"unexpected status", st>>)) : st \in statuses}

\* A task whose process_repo returns the error err.
ProcessRepoFails(j, err) ==
    /\ j \in DOMAIN tasks
    /\ tasks[j].pc = "spawned"
    /\ Cardinality(Running) < RepoPermits(env.maxRepos)
    /\ JobEnd(j, Failure(err))
    /\ UNCHANGED <<callers, pending, queues, sched, tokens, cache, inflight,
                   perRepo, repositories, cycle, store>>

\* Pending jobs, one cycle, and a fetcher that fails every run with one of
\* the errors.
InitClassify ==
    /\ Built
    /\ env = [maxInflight |-> MaxInflight, menu |-> [c \in Callers |-> {}],
              arrivals |-> 0, faults |-> 0,
              maxRepos |-> MaxConcurrentRepos, dbFaults |-> 0]
    /\ jobs = [j \in JobIds |-> JobRow(j, "pending", 0)]
    /\ cycle = [pc |-> "idle", loaded |-> <<>>, left |-> 1]

NextClassify ==
    \/ LoadPending
    \/ MarkInProgress
    \/ \E j \in JobIds, err \in ClassifierInputs : ProcessRepoFails(j, err)
    \/ JoinAll

SpecClassify == InitClassify /\ [][NextClassify]_vars

\* ------------------------------------------------------------- ingestion
\* page_size of the collector's configuration
PageSize == 1

\* The issues of the remote and the users that wrote them: issue 1 has
\* comments, issue 2 has none.
IssueNumbers == 1..MaxIssues
AuthorOf(i) == IF i = 1 THEN "u1" ELSE "u2"
CommentsOf(i) == IF i = 1 THEN 1 ELSE 0

\* What GET repos/o/{name} answers: the repository o/n for its name in any
\* case and for its former name m, the repository o/k for k.
RepoBody(name) == IF LowerCase(name) \in {"n", "m"} THEN "b1" ELSE "b2"

\* What enqueue returns when the last attempt of the broker got the status
\* st: the response, or the error of process_work as Inner::finish sends it.
Enqueue(st, body) ==
    IntoResponse(IF IsSuccess(st)
                 THEN OkResult([status |-> st, headers |-> NoHeaders, body |-> body])
                 ELSE ErrResult(ErrToString(HttpStatusError(st))))

\* The issues of numbers S, the most recently updated first (the listing is
\* requested with sort = updated and direction = desc).
RECURSIVE ByUpdatedDesc(_, _)
ByUpdatedDesc(times, S) ==
    IF S = {} THEN <<>>
    ELSE LET i == CHOOSE x \in S : \A y \in S :
                      times[x] > times[y] \/ (times[x] = times[y] /\ x <= y)
         IN  <<[number |-> i, updated_at |-> times[i], author |-> AuthorOf(i),
                comments_count |-> CommentsOf(i)]>>
             \o ByUpdatedDesc(times, S \ {i})

\* The remote's page of GET repos/{owner}/{repo}/issues: the issues updated
\* at or after since (all of them without since), per_page of them from
\* page on.
ListRepoIssues(times, since, page, per_page) ==
    LET all == ByUpdatedDesc(times,
                   {i \in DOMAIN times : times[i] > 0 /\ times[i] >= since})
        first == (page - 1) * per_page + 1
    IN  SubSeq(all, first, Min({Len(all), first + per_page - 1}))

\* upsert of a row into a table keyed by the fields of key
Upsert(tbl, row, key) ==
    {r \in tbl : \E f \in key : r[f] # row[f]} \cup {row}

\* A watermark table that is read as empty.
NoWatermark(tbl, repo) == 0

\* WatermarkRepository::get, 0 for no row
WatermarkOf(tbl, repo) ==
    IF \E w \in tbl : w.repo = repo
    THEN (CHOOSE w \in tbl : w.repo = repo).last_updated ELSE 0

\* A task gets a permit of the cycle's semaphore; process_repo fetches the
\* repository, checks it against the seed, upserts its row and reads the
\* watermark.
BeginRepo(j) ==
    /\ j \in DOMAIN tasks
    /\ tasks[j].pc = "spawned"
    /\ Cardinality(Running) < RepoPermits(env.maxRepos)
    /\ LET seed == SeedOf(j)
           res == FetchRepo(seed, Enqueue(200, RepoBody(seed.name)))
           repo == RepoPayload(res.body)
           w == WatermarkOf(store.watermarks, repo)
       IN  IF res.ok
           THEN /\ repositories' = repositories \cup {repo}
                /\ tasks' = [tasks EXCEPT ![j].pc = "list", ![j].repo = repo,
                                          ![j].watermark = w, ![j].newest = w]
                /\ UNCHANGED <<jobs, env>>
           ELSE /\ JobEnd(j, res)
                /\ repositories' = repositories
    /\ UNCHANGED <<callers, pending, queues, sched, tokens, cache, inflight,
                   perRepo, cycle, store>>

\* fetch_issues for the current cursor: the request carries the watermark
\* as since; an error ends the run, an empty page ends the loop.
FetchIssues(j) ==
    /\ j \in DOMAIN tasks
    /\ tasks[j].pc = "list"
    /\ LET t == tasks[j]
           endpoint == <<"repos", t.job.owner, t.job.name, "issues">>
           res == GetJson(Enqueue(200, ""), endpoint)
           items == ListRepoIssues(env.times, t.watermark, t.page, PageSize)
       IN  IF res.ok
           THEN /\ tasks' = [tasks EXCEPT ![j].asked = t.watermark,
                        ![j].pc = IF items = <<>> THEN "set" ELSE "items",
                        ![j].items = items, ![j].more = (Len(items) = PageSize)]
                /\ UNCHANGED <<jobs, env>>
           ELSE JobEnd(j, res)
    /\ UNCHANGED <<callers, pending, queues, sched, tokens, cache, inflight,
                   perRepo, repositories, cycle, store>>

\* RestDataFetcher::fetch_user: Missing for a 404 that is a GithubApiError,
\* the error for any other failure.
FetchUser(login) ==
    LET res == GetJson(Enqueue(IF login \in env.ghosts THEN 404 ELSE 200, login),
                       <<"users", login>>)
    IN  IF res.ok THEN [ok |-> TRUE, found |-> TRUE, err |-> res.err]
        ELSE IF res.err.type = "api" /\ res.err.status = 404
        THEN [ok |-> TRUE, found |-> FALSE, err |-> res.err]
        ELSE [ok |-> FALSE, found |-> FALSE, err |-> res.err]

\* RestDataFetcher::fetch_issue_comments: a 404 that is a GithubApiError or
\* an HttpStatusError gives an empty page, any other failure the error.
FetchIssueComments(seed, number) ==
    LET text == IF number = 1 THEN "1" ELSE "2"
        res == GetJson(Enqueue(IF number \in env.gone THEN 404 ELSE 200, ""),
                       <<"repos", seed.owner, seed.name, "issues", text, "comments">>)
    IN  IF res.ok THEN res
        ELSE IF res.err.type \in {"api", "http"} /\ res.err.status = 404
        THEN Success("")
        ELSE res

\* A process_comments that returns every error of the fetch.
ProcessCommentsOrFail(seed, number) ==
    LET res == FetchIssueComments(seed, number)
    IN  [ok |-> res.ok, found |-> TRUE, err |-> res.err]

\* process_comments: [ok, found, err], found being FALSE when the issue was
\* marked missing.
ProcessComments(seed, number) ==
    LET res == FetchIssueComments(seed, number)
    IN  IF res.ok THEN [ok |-> TRUE, found |-> TRUE, err |-> res.err]
        ELSE IF StatusFromError(res.err) = 404
        THEN [ok |-> TRUE, found |-> FALSE, err |-> res.err]
        ELSE [ok |-> FALSE, found |-> TRUE, err |-> res.err]

\* A loop that stops only at an issue older than the watermark.
SeenOlder(issue, watermark) == watermark # 0 /\ issue.updated_at < watermark

\* issue.updated_at <= since of the loop over the page
SeenExisting(issue, watermark) == watermark # 0 /\ issue.updated_at <= watermark

\* The body of the loop over the items of a page: an issue not newer than
\* the watermark ends both loops; else its author is ensured, the issue is
\* upserted and scored, newest_ts is raised and its comments are processed.
\* After the last item the next page is requested, if there is one.
HandleIssue(j) ==
    /\ j \in DOMAIN tasks
    /\ tasks[j].pc = "items"
    /\ LET t == tasks[j]
           issue == Head(t.items)
           row == [repo |-> t.repo, number |-> issue.number,
                   updated_at |-> issue.updated_at, found |-> TRUE]
           known == issue.author \in t.users
           user == FetchUser(issue.author)
           users1 == IF known \/ ~user.ok THEN store.users
                     ELSE Upsert(store.users,
                              [login |-> issue.author, found |-> user.found],
                              {"login"})
           coms == IF issue.comments_count > 0
                   THEN ProcessComments(t.job, issue.number)
                   ELSE [ok |-> TRUE, found |-> TRUE, err |-> AnyhowError(NoMsg)]
           issues1 == Upsert(store.issues, row, {"repo", "number"})
           issues2 == IF coms.ok /\ ~coms.found
                      THEN Upsert(issues1, [row EXCEPT !.found = FALSE],
                               {"repo", "number"})
                      ELSE issues1
           rest == Tail(t.items)
           t1 == [t EXCEPT !.users = @ \cup {issue.author},
                           !.newest = Max({@, issue.updated_at}),
                           !.items = rest]
       IN  IF SeenExisting(issue, t.watermark)
           THEN /\ tasks' = [tasks EXCEPT ![j].pc = "set", ![j].items = <<>>]
                /\ UNCHANGED <<jobs, env, store>>
           ELSE IF ~known /\ ~user.ok
           THEN /\ JobEnd(j, Failure(user.err))
                /\ store' = store
           ELSE IF ~coms.ok
           THEN /\ JobEnd(j, Failure(coms.err))
                /\ store' = [store EXCEPT !.users = users1, !.issues = issues1]
           ELSE /\ store' = [store EXCEPT !.users = users1, !.issues = issues2]
                /\ tasks' = [tasks EXCEPT ![j] =
                       IF rest # <<>> THEN t1
                       ELSE IF t.more THEN [t1 EXCEPT !.pc = "list", !.page = @ + 1]
                       ELSE [t1 EXCEPT !.pc = "set"]]
                /\ UNCHANGED <<jobs, env>>
    /\ UNCHANGED <<callers, pending, queues, sched, tokens, cache, inflight,
                   perRepo, repositories, cycle>>

\* The end of process_repo: the watermark is set to newest_ts when there is
\* one, and the run returns Ok.
SetWatermark(j) ==
    /\ j \in DOMAIN tasks
    /\ tasks[j].pc = "set"
    /\ LET t == tasks[j]
       IN  /\ store' = IF t.newest # 0
                       THEN [store EXCEPT !.watermarks =
                                Upsert(@, [repo |-> t.repo, last_updated |-> t.newest],
                                       {"repo"})]
                       ELSE store
           /\ tasks' = [tasks EXCEPT ![j].pc = "return", ![j].wrote = (t.newest # 0)]
    /\ UNCHANGED <<callers, pending, queues, sched, tokens, cache, inflight,
                   perRepo, env, jobs, repositories, cycle>>

\* process_repo returned Ok: the task updates the job.
RunReturns(j) ==
    /\ j \in DOMAIN tasks
    /\ tasks[j].pc = "return"
    /\ JobEnd(j, Success(""))
    /\ UNCHANGED <<callers, pending, queues, sched, tokens, cache, inflight,
                   perRepo, repositories, cycle, store>>

\* The remote: an issue is created or updated.
RemoteUpdate(i) ==
    /\ Max(Range(env.times)) < MaxTime
    /\ env' = [env EXCEPT !.times[i] = Max(Range(env.times)) + 1]
    /\ UNCHANGED <<callers, pending, queues, sched, tokens, cache, inflight,
                   perRepo, collector>>

\* The names a job of the table can have.
NamesOf == <<{"n", "N"}, {"m", "k"}, {"l"}, {"l"}>>

\* The names of the jobs of the table: full_name is unique without regard
\* to case.
JobNames ==
    {s \in [JobIds -> {"n", "N", "m", "k", "l"}] :
        /\ \A a, b \in JobIds : a # b => LowerCase(s[a]) # LowerCase(s[b])
        /\ \A a \in JobIds : s[a] \in NamesOf[a]}

\* The store as earlier runs left it (the repository o/n ingested up to
\* time 1, or nothing ingested), jobs pending again whose full names differ
\* in more than case, and a remote whose issue 1 was updated at time 1.
IngestFrom(k, d, gone, ghosts, w, names) ==
    /\ BrokerBuilt
    /\ env = [maxInflight |-> MaxInflight, menu |-> [c \in Callers |-> {}],
              arrivals |-> 0, faults |-> 0, maxRepos |-> k, dbFaults |-> d,
              times |-> [i \in IssueNumbers |-> IF i = 1 THEN 1 ELSE 0],
              gone |-> gone, ghosts |-> ghosts]
    /\ jobs = [j \in JobIds |-> [JobRow(j, "pending", 0) EXCEPT !.name = names[j]]]
    /\ cycle = [pc |-> "idle", loaded |-> <<>>, left |-> MaxCycles]
    /\ store = [issues |-> IF w = 0 THEN {}
                           ELSE {[repo |-> <<"o", "n">>, number |-> 1,
                                  updated_at |-> 1, found |-> TRUE]},
                users |-> IF w = 0 THEN {} ELSE {[login |-> "u1", found |-> TRUE]},
                watermarks |-> IF w = 0 THEN {}
                               ELSE {[repo |-> <<"o", "n">>, last_updated |-> 1]}]
    /\ repositories = IF w = 0 THEN {} ELSE {<<"o", "n">>}
    /\ tasks = <<>>

InitIngest ==
    \E k \in 0..MaxConcurrentRepos, gone \in SUBSET {1}, ghosts \in SUBSET {"u2"},
       w \in 0..1, names \in JobNames :
        IngestFrom(k, 0, gone, ghosts, w, names)

\* The same with a store that fails some of the writes to the job table.
InitStoreFaults ==
    \E names \in JobNames, w \in 0..1 :
        IngestFrom(MaxConcurrentRepos, IngestDbFaults, {}, {}, w, names)

NextIngest ==
    \/ LoadPending
    \/ MarkInProgress
    \/ \E j \in JobIds : BeginRepo(j)
    \/ \E j \in JobIds : FetchIssues(j)
    \/ \E j \in JobIds : HandleIssue(j)
    \/ \E j \in JobIds : SetWatermark(j)
    \/ \E j \in JobIds : RunReturns(j)
    \/ JoinAll
    \/ \E i \in IssueNumbers : RemoteUpdate(i)

SpecIngest == InitIngest /\ [][NextIngest]_vars

SpecStoreFaults == InitStoreFaults /\ [][NextIngest]_vars

\* The construction of requests alone.
NextKeys ==
    \E c \in Callers : \E call \in env.menu[c] : Intake(c, call.req, call.priority)

SpecKeys == InitKeys /\ [][NextKeys]_vars

\* --------------------------------------------------- a backlog being served
\* The query of the i-th request of a backlog.
BacklogQuery ==
    <<"q=1", "q=2", "q=3", "q=4", "q=5", "q=6", "q=7", "q=8", "q=9", "q=10",
      "q=11", "q=12", "q=13", "q=14", "q=15", "q=16", "q=17", "q=18", "q=19",
      "q=20", "q=21", "q=22", "q=23", "q=24">>

\* The work item dispatch sends for the i-th request at priority p.
BacklogItem(i, p) ==
    LET g == NewGithubRequest(
                 Req("GET", <<"repos", "o", "n", "issues">>, BacklogQuery[i], "",
                     "search", TRUE), p)
    IN  [request |-> g, key |-> g.key, cached |-> NoCached]

\* PreQueued critical and PreQueued normal requests hinted search, each of its own
\* producer, are in the channels of the search budget (weights 2, 1, 0)
\* when its task enters its loop.
InitBacklog ==
    /\ callers = [c \in Callers |-> IdleCaller]
    /\ pending = [k \in {BacklogItem(i, "critical").key : i \in 1..(2 * PreQueued)}
                    |-> <<"producer">>]
    /\ queues = [b \in Budgets |->
           IF b # "search" THEN [l \in 1..3 |-> <<>>]
           ELSE << [i \in 1..PreQueued |-> BacklogItem(i, "critical")],
                   [i \in 1..PreQueued |-> BacklogItem(PreQueued + i, "normal")],
                   <<>> >>]
    /\ sched = [b \in Budgets |->
           IF b = "search" THEN At(IdleSched, NextLane(b, 1, FALSE)) ELSE IdleSched]
    /\ tokens = [t \in Range(Tokens) |-> [b \in Budgets |-> NewRateLimitState]]
    /\ cache = <<>>
    /\ inflight = 0
    /\ perRepo = <<>>
    /\ repositories = {}
    /\ tasks = <<>>
    /\ store = [issues |-> {}, users |-> {}, watermarks |-> {}]
    /\ NoCollector
    /\ env = [maxInflight |-> MaxInflight, menu |-> [c \in Callers |-> {}],
              arrivals |-> 0, faults |-> MaxFaults]

\* The budget tasks alone: no producer arrives while the backlog is served.
NextBacklog ==
    \/ \E b \in Budgets : TryRecv(b)
    \/ \E b \in Budgets : AcquirePermit(b)
    \/ \E b \in Budgets : AcquireRepo(b)
    \/ \E b \in Budgets : SelectToken(b)
    \/ \E b \in Budgets, resp \in Responses : HttpReturn(b, resp)
    \/ \E b \in Budgets : Wake(b)
    \/ \E b \in Budgets : Finish(b)
    \/ Tick

SpecBacklog == InitBacklog /\ [][NextBacklog]_vars

\* The first producer lists the issues at backfill priority, the second asks
\* for the same listing at critical priority, plainly or under the search
\* hint, the third lists the pulls at critical priority.
InitJoin ==
    /\ Built
    /\ NoCollector
    /\ env = [maxInflight |-> MaxInflight,
              menu |-> [c \in Callers |->
                  IF c = CallerSeq[1] THEN {Call(Get("issues", None), "backfill")}
                  ELSE IF c = CallerSeq[2]
                  THEN {Call(Get("issues", None), "critical"),
                        Call(Get("issues", "search"), "critical")}
                  ELSE {Call(Get("pulls", None), "critical")}],
              arrivals |-> JoinProducers, faults |-> MaxFaults]

SpecJoin == InitJoin /\ [][Next]_vars

\* ------------------------------------------------------------- token pool
\* Counters a token can hold for a budget: as created, or as written from
\* the rate-limit headers of an earlier response.
PoolStates ==
    {NewRateLimitState} \cup
    {rl \in [limit : 1..MaxPoolLimit, remaining : 0..MaxPoolLimit,
              reset : 0..MaxPoolReset] : rl.remaining <= rl.limit}

\* Rate-limit headers as parse_rate_limit accepts them: any three integers.
HeaderResponses ==
    { Resp(FALSE, 200, None, -1, [limit |-> 1, remaining |-> 3, reset |-> ResetAfter], "b1"),
      Resp(FALSE, 200, None, -1, [limit |-> 2, remaining |-> 1, reset |-> 1], "b1") }

\* A broker built with any number of the tokens, their search counters in
\* any of these states, and one search request in the critical channel.
InitPool ==
    /\ callers = [c \in Callers |-> IdleCaller]
    /\ pending = [k \in {BacklogItem(1, "critical").key} |-> <<"producer">>]
    /\ queues = [b \in Budgets |->
           IF b = "search" THEN <<<<BacklogItem(1, "critical")>>, <<>>, <<>>>>
           ELSE [l \in 1..3 |-> <<>>]]
    /\ sched = [b \in Budgets |->
           IF b = "search" THEN At(IdleSched, NextLane("search", 1, FALSE))
           ELSE IdleSched]
    /\ \E ids \in SUBSET Range(Tokens) : \E st \in [ids -> PoolStates] :
          tokens = [t \in ids |-> [b \in Budgets |->
              IF b = "search" THEN st[t] ELSE NewRateLimitState]]
    /\ cache = <<>>
    /\ inflight = 0
    /\ perRepo = <<>>
    /\ repositories = {}
    /\ tasks = <<>>
    /\ store = [issues |-> {}, users |-> {}, watermarks |-> {}]
    /\ NoCollector
    /\ env = [maxInflight |-> MaxInflight, menu |-> [c \in Callers |-> {}],
              arrivals |-> 0, faults |-> PoolFaults]

NextPool ==
    \/ \E b \in Budgets : TryRecv(b)
    \/ \E b \in Budgets : AcquirePermit(b)
    \/ \E b \in Budgets : AcquireRepo(b)
    \/ \E b \in Budgets : SelectToken(b)
    \/ \E b \in Budgets, resp \in Responses \cup HeaderResponses : HttpReturn(b, resp)
    \/ \E b \in Budgets : Wake(b)
    \/ \E b \in Budgets : Finish(b)
    \/ Tick

SpecPool == InitPool /\ [][NextPool]_vars

\* ----------------------------------------------------------------- claims
\* The budget tasks that hold a work item, and those whose HTTP call is out.
Working(b) == sched[b].pc \notin {"scan", "select"}
InFlight(b) == sched[b].pc = "http"

QueuedFor(k) ==
    {<<b, l, i>> \in Budgets \X (1..3) \X (1..(QueueCap + 1)) :
        i <= Len(queues[b][l]) /\ queues[b][l][i].key = k}

\* The work items of fingerprint k: queued, about to be sent, or in process.
WorkItems(k) ==
    Cardinality(QueuedFor(k))
    + Cardinality({b \in Budgets : Working(b) /\ sched[b].work.key = k})
    + Cardinality({c \in Callers : callers[c].pc = "send" /\ callers[c].req.key = k})

\* C1: for every fingerprint at most one outbound call is in flight and at
\* most one work item exists (queued, being sent, or in process), whatever
\* budgets and lanes the callers use; a caller that found the fingerprint
\* pending is a waiter of the entry and never sends a work item.
C1_OneDispatchPerFingerprint ==
    /\ \A k \in Keys :
          /\ Cardinality({b \in Budgets : InFlight(b) /\ sched[b].work.key = k}) <= 1
          /\ WorkItems(k) <= 1
          /\ WorkItems(k) = 1 => k \in DOMAIN pending
    /\ \A c \in Callers :
          /\ callers[c].pc = "send" => pending[callers[c].req.key][1] = c
          /\ callers[c].pc = "waiting" /\ callers[c].joined # c
                => callers[callers[c].joined].req.key = callers[c].req.key

\* A second caller is attached to the entry of a fingerprint whose call is out.
C1_Witness ==
    \E b \in Budgets :
        /\ InFlight(b)
        /\ sched[b].work.key \in DOMAIN pending
        /\ Len(pending[sched[b].work.key]) >= 2
        /\ \E c \in Callers : callers[c].pc = "waiting" /\ callers[c].joined # c

\* C2: the callers settled through one pending entry, its dispatcher
\* included, hold the same outcome: the same status, headers and body, or
\* the same error.
C2_SameOutcome ==
    \A c, d \in Callers :
        callers[c].pc = "done" /\ callers[d].pc = "done"
        /\ callers[c].joined # None /\ callers[c].joined = callers[d].joined
            => callers[c].result = callers[d].result

\* A dispatcher and a coalesced waiter are both settled.
C2_Witness ==
    \E c, d \in Callers :
        /\ c # d
        /\ callers[c].pc = "done" /\ callers[d].pc = "done"
        /\ callers[c].joined = c /\ callers[d].joined = c

\* C6: the outbound calls in flight, over all budgets and lanes, never
\* exceed the configured max_inflight.
C6_GlobalCap ==
    /\ Cardinality({b \in Budgets : InFlight(b)}) <= env.maxInflight
    /\ inflight <= env.maxInflight

\* Every permit is out on an HTTP call and another budget task waits for one.
C6_Witness ==
    /\ Cardinality({b \in Budgets : InFlight(b)}) = env.maxInflight
    /\ \E b \in Budgets : sched[b].pc = "permit"

\* C7: for every repository the calls in flight under repos/{owner}/{name}
\* never exceed the per-repository limit, across budgets and lanes.
C7_PerRepoCap ==
    \A repo \in RepoKeys :
        Cardinality({b \in Budgets : InFlight(b) /\ RepoOf(sched[b]) = repo})
            <= PerRepoLimit

\* A call is out under a repository while another budget's call for the
\* same repository holds a global permit and waits for the repository's.
C7_Witness ==
    \E b, d \in Budgets :
        /\ b # d
        /\ InFlight(b) /\ sched[d].pc = "repo"
        /\ RepoOf(sched[b]) = RepoOf(sched[d])
        /\ AcquirePerRepo(perRepo, RepoOf(sched[b])) = PerRepoLimit

\* C3: a call goes out only with a token whose state for the budget, when it
\* was selected, had remaining > 0 or a reset time that has passed; when no
\* token qualifies no call goes out, the task sleeps, leaves the sleep only
\* once the shortest reset delta has elapsed, and the selection that follows
\* finds a token and sends the call.
C3_EligibleTokenOnly ==
    [][\A b \in Budgets :
        LET s == sched[b]
            t == sched'[b]
            Qualifies(x) == tokens[x][b].remaining > 0 \/ tokens[x][b].reset <= 0
        IN  /\ s.pc # "http" /\ t.pc = "http"
                => s.pc = "pick" /\ t.token \in Range(Tokens) /\ Qualifies(t.token)
            /\ s.pc = "pick" /\ t.pc # "pick" /\ (\A x \in Range(Tokens) : ~Qualifies(x))
                => /\ t.pc = "ratesleep"
                   /\ t.wait = Min({tokens[x][b].reset : x \in Range(Tokens)})
                   /\ t.timer > t.wait
            /\ s.pc = "pick" /\ (\E x \in Range(Tokens) : Qualifies(x))
                => t.pc \in {"pick", "http"}
            /\ s.pc = "ratesleep" /\ t.pc # "ratesleep"
                => /\ s.wait = 0
                   /\ t.pc = "pick"
                   /\ \E x \in Range(Tokens) : Qualifies(x)
    ]_vars

\* A call is out that was sent after a rate-limit sleep ran its time.
C3_Witness ==
    \E b \in Budgets : sched[b].pc = "http" /\ sched[b].wait = 0

\* A caller at rest: settled, cancelled, or suspended on its receiver.
AtRest(c) == callers[c].pc \in {"done", "cancelled", "waiting"}

\* Every producer has called and nothing is left to do: every budget task
\* is blocked on its empty channels and no caller is about to register or
\* to send.
Quiescent ==
    /\ \A c \in Callers : AtRest(c)
    /\ \A b \in Budgets :
          sched[b].pc = "select" /\ \A l \in 1..3 : queues[b][l] = <<>>

\* C4: every enqueue call that is not cancelled returns a response or an
\* error: once the broker has nothing left to do, no caller is still
\* suspended on its receiver.
C4_EveryCallReturns ==
    Quiescent => \A c \in Callers : callers[c].pc # "waiting"

\* C5: cancelling a caller, the dispatcher included, loses only that
\* caller's waiter: once the broker has nothing left to do, every pending
\* entry has been removed.
C5_CancelDropsOnlyWaiter ==
    Quiescent => pending = <<>>

\* C8: a GET that finds a fresh cache entry with an ETag at intake carries
\* that ETag as If-None-Match, in the caller's request and in the call that
\* goes out; a 304 for a work item that has a cached entry is finalized with
\* the entry's status, headers and body, and that, not the 304, is what the
\* callers of the entry receive.
C8_ConditionalGet ==
    [][/\ \A c \in Callers :
            callers[c].pc = "idle" /\ callers'[c].pc = "register"
            => LET g == callers'[c].req
               IN  \A i \in DOMAIN cache :
                      /\ g.inner.method = "GET"
                      /\ cache[i].key = g.key
                      /\ cache[i].entry.age < CacheTtl
                      /\ cache[i].entry.etag # None
                      => g.inm = cache[i].entry.etag
       /\ \A b \in Budgets :
            LET s == sched[b]
                t == sched'[b]
                e == s.work.cached
            IN  /\ t.pc = "http" /\ t.work.cached.etag # None
                    => t.work.request.inm = t.work.cached.etag
                /\ s.pc = "http" /\ t.pc # "http" /\ ~t.resp.net
                   /\ t.resp.status = 304 /\ e # NoCached
                    => /\ t.pc = "finish" /\ t.err.kind = None
                       /\ t.out.ok /\ t.out.status = e.status /\ t.out.status # 304
                       /\ t.out.headers = e.headers /\ t.out.body = e.body
                /\ s.pc = "finish" /\ t.pc # "finish" /\ s.err.kind = None
                    => \A c \in Callers :
                          callers[c].pc = "waiting" /\ callers[c].req.key = s.work.key
                          => /\ callers'[c].pc = "done"
                             /\ callers'[c].result.ok
                             /\ callers'[c].result.status = s.out.status
                             /\ callers'[c].result.headers = s.out.headers
                             /\ callers'[c].result.body = s.out.body
    ]_vars

\* A request that carried the cached ETag was answered 304 and is finalized
\* with the body of the earlier 200.
C8_Witness ==
    \E b \in Budgets :
        /\ sched[b].pc = "finish"
        /\ sched[b].resp.status = 304
        /\ sched[b].work.request.inm = "x"
        /\ sched[b].out.status = 200 /\ sched[b].out.body = "b1"
        /\ \E c \in Callers :
              callers[c].pc = "waiting" /\ callers[c].req.key = sched[b].work.key

\* The fingerprints whose cache entry was inserted or replaced by the step.
CacheWritten ==
    {k \in Keys :
        /\ CacheIndex(cache', k) # 0
        /\ \/ CacheIndex(cache, k) = 0
           \/ LET old == cache[CacheIndex(cache, k)].entry
                  new == cache'[CacheIndex(cache', k)].entry
              IN  new.age < old.age \/ [new EXCEPT !.age = 0] # [old EXCEPT !.age = 0]}

\* C9: a cache entry is inserted or replaced only by the return of a call
\* for a GET request whose response is 2xx and carries an ETag, under the
\* fingerprint of that request; no other step writes the cache.
C9_CacheWriteOnlyGetEtag ==
    [][\A k \in CacheWritten :
          \E b \in Budgets :
              /\ sched[b].pc = "http" /\ sched'[b].pc = "finish"
              /\ sched[b].work.key = k
              /\ sched[b].work.request.inner.method = "GET"
              /\ ~sched'[b].resp.net
              /\ sched'[b].resp.status >= 200 /\ sched'[b].resp.status <= 299
              /\ sched'[b].resp.etag # None
              /\ cache'[1].key = k /\ cache'[1].entry.etag = sched'[b].resp.etag
    ]_vars

\* An entry is in the cache while a 2xx answer without ETag to a GET, which
\* wrote none, is about to be fanned out.
C9_Witness ==
    /\ cache # <<>>
    /\ \E b \in Budgets :
          /\ sched[b].pc = "finish" /\ sched[b].err.kind = None
          /\ sched[b].work.request.inner.method = "GET"
          /\ sched[b].resp.status = 200 /\ sched[b].resp.etag = None
          /\ CacheIndex(cache, sched[b].work.key) = 0

\* An error on which process_work gives up at once.
TerminalError(err) ==
    err.kind = "http" /\ err.status >= 400 /\ err.status <= 499
    /\ err.status # 403 /\ err.status # 429

\* C10: a work item gets at most 5 attempts; it is finalized with the
\* response on the first success, with the error on the first terminal
\* failure or on the failure of the 5th attempt, and retried otherwise; its
\* waiters are settled by that one finalization, which removes the entry,
\* and a settled caller's outcome never changes.
C10_BoundedAttempts ==
    [][/\ \A b \in Budgets :
            LET s == sched[b]
                t == sched'[b]
            IN  /\ t.attempt <= MaxAttempts
                /\ s.pc = "http" /\ t.pc # "http" /\ ~t.resp.net
                   /\ t.resp.status >= 200 /\ t.resp.status <= 299
                    => t.pc = "finish" /\ t.err.kind = None
                       /\ t.out.ok /\ t.out.status = t.resp.status
                /\ s.pc # "finish" /\ t.pc = "finish" /\ t.err.kind # None
                    => TerminalError(t.err) \/ t.attempt = MaxAttempts
                /\ s.pc \in {"http", "pause"} /\ t.pc = "backoff"
                    => ~TerminalError(t.err) /\ t.attempt < MaxAttempts
                /\ s.pc = "http" /\ t.pc # "http" /\ TerminalError(t.err)
                    => t.pc = "finish"
                /\ Working(b) /\ s.pc # "finish"
                    => /\ t.work = s.work
                       /\ s.work.key \in DOMAIN pending
                       /\ s.work.key \in DOMAIN pending'
                /\ s.pc = "finish" /\ t.pc # "finish"
                    => /\ t.work = NoWork
                       /\ s.work.key \notin DOMAIN pending'
                       /\ \A c \in Callers :
                             callers[c].pc = "waiting" /\ callers[c].req.key = s.work.key
                             => callers'[c].pc = "done"
       /\ \A c \in Callers :
            /\ callers[c].pc = "done" => callers'[c] = callers[c]
            /\ callers[c].pc = "waiting" /\ callers'[c].pc = "done"
                => \E b \in Budgets :
                      sched[b].pc = "finish" /\ sched[b].work.key = callers[c].req.key
    ]_vars

\* The 5th attempt has failed on a retryable error and the item is about to
\* be finalized with that error.
C10_Witness ==
    \E b \in Budgets :
        /\ sched[b].pc = "finish"
        /\ sched[b].attempt = MaxAttempts
        /\ sched[b].err.kind # None /\ ~TerminalError(sched[b].err)

\* The outcomes of an attempt that are retryable: a network error, a 5xx,
\* 403 or 429, or a response other than 2xx that carries Retry-After.
RetryableOutcome(resp) ==
    \/ resp.net
    \/ resp.status >= 500 /\ resp.status <= 599
    \/ resp.status = 403 \/ resp.status = 429
    \/ ~(resp.status >= 200 /\ resp.status <= 299) /\ resp.retry # -1

\* process_work decides on the failed attempt of budget task b in this step.
FailureDecided(b) ==
    /\ sched[b].pc \in {"http", "pause"}
    /\ sched'[b].pc \in {"backoff", "finish"}
    /\ sched'[b].err.kind # None

\* C11: a failed attempt is followed by another attempt exactly when its
\* outcome is retryable (network error, 5xx, 403, 429, or a non-2xx response
\* with Retry-After) and fewer than 5 attempts have been made; every other
\* failure finalizes the work item at once.
C11_RetryExactlyWhenRetryable ==
    [][\A b \in Budgets :
          FailureDecided(b)
          => (sched'[b].pc = "backoff"
                <=> RetryableOutcome(sched'[b].resp) /\ sched'[b].attempt < MaxAttempts)
    ]_vars

\* C12: a 304 for a work item that has no cached entry is a terminal error:
\* the work item is finalized with the error at once, without a further
\* attempt.
C12_NotModifiedWithoutCacheTerminal ==
    [][\A b \in Budgets :
          /\ sched[b].pc = "http" /\ sched'[b].pc # "http"
          /\ ~sched'[b].resp.net /\ sched'[b].resp.status = 304
          /\ sched[b].work.cached = NoCached
          => sched'[b].pc = "finish" /\ sched'[b].err.kind # None
    ]_vars

\* The endpoint of a request: its path.
EndpointOf(r) == r.path

\* C13: when a work item is finalized with an HTTP failure, the error each
\* caller receives carries the HTTP status and the endpoint of the request.
C13_ErrorCarriesStatusAndEndpoint ==
    [][\A b \in Budgets :
          sched[b].pc = "finish" /\ sched'[b].pc # "finish" /\ sched[b].err.kind = "http"
          => \A c \in Callers :
                callers[c].pc = "waiting" /\ callers[c].req.key = sched[b].work.key
                => LET msg == callers'[c].result.msg
                   IN  /\ ~callers'[c].result.ok
                       /\ Len(msg) = 4
                       /\ msg[2] = sched[b].err.status
                       /\ msg[4] = EndpointOf(callers[c].req.inner)
    ]_vars

\* C14: a lane whose weight is 0 is never served: no step takes an item out
\* of its channel, whatever the other lanes of the budget hold.
C14_ZeroWeightNeverServed ==
    [][\A b \in Budgets : \A l \in 1..3 :
          Weights[b][l] = 0 => Len(queues'[b][l]) >= Len(queues[b][l])
    ]_vars

\* The lanes of positive weight from lane l on, and the position the
\* weighted cycle reaches when the lanes before l are done.
PositiveFrom(b, l) == {x \in l..3 : Weights[b][x] > 0}

CycleMovesTo(b, l, processed, t) ==
    IF PositiveFrom(b, l) # {}
    THEN /\ t.pc = "scan" /\ t.cnt = 0 /\ t.processed = processed
         /\ t.lane \in PositiveFrom(b, l)
         /\ \A x \in PositiveFrom(b, l) : t.lane <= x
    ELSE IF processed
    THEN /\ t.pc = "scan" /\ t.cnt = 0 /\ ~t.processed
         /\ t.lane \in PositiveFrom(b, 1)
         /\ \A x \in PositiveFrom(b, 1) : t.lane <= x
    ELSE t.pc = "select"

HoldsPermit(b) == sched[b].pc \in {"repo", "pick", "ratesleep", "http"}

Sleeping(b) == sched[b].pc \in {"ratesleep", "pause", "backoff"}

\* C16: budgets make progress independently of each other's sleeps: a
\* work item that a budget task has dequeued waits for a global permit only
\* while a task that is not asleep owns one; a task sleeping for a
\* rate-limit reset, a Retry-After, a secondary pause or a backoff never
\* keeps another budget's item from being dispatched, whatever max_inflight.
C16_SleepBlocksNoBudget ==
    \A b \in Budgets :
        sched[b].pc = "permit" /\ ~PermitFree(inflight, env.maxInflight)
        => \E o \in Budgets \ {b} : HoldsPermit(o) /\ ~Sleeping(o)


\* Two requests with the same method, path and query.
SameTarget(x, y) ==
    x.method = y.method /\ x.path = y.path /\ x.query = y.query

\* C17: two GET requests with the same method, path and query have the
\* same fingerprint whatever their bodies; two requests of another method
\* with the same method, path and query but different bodies have
\* different fingerprints.
C17_FingerprintAndBody ==
    \A c \in Callers, d \in Callers :
        LET g == callers[c].req
            h == callers[d].req
        IN  g # NoReq /\ h # NoReq /\ SameTarget(g.inner, h.inner)
            => /\ g.inner.method = "GET" => g.key = h.key
               /\ g.inner.method # "GET" /\ g.inner.body # h.inner.body
                  => g.key # h.key

C17_Witness ==
    \E c \in Callers, d \in Callers, e \in Callers :
        LET g == callers[c].req
            h == callers[d].req
            k == callers[e].req
        IN  /\ g # NoReq /\ h # NoReq /\ k # NoReq
            /\ SameTarget(g.inner, h.inner)
            /\ g.inner.method = "GET"
            /\ g.inner.body = "" /\ h.inner.body = "ignored"
            /\ g.key = h.key
            /\ k.inner.method = "POST" /\ k.inner.body = "q1"
            /\ k.inner.path = g.inner.path /\ k.inner.query = g.inner.query
            /\ k.key # g.key


\* A task of the cycle ends in this step.
TaskEnds(j) ==
    /\ j \in DOMAIN tasks /\ j \in DOMAIN tasks'
    /\ tasks[j].pc # "done" /\ tasks'[j].pc = "done"

\* C18: a collection job changes status only from pending to in_progress
\* and from in_progress to completed, pending or error; the jobs a cycle
\* has loaded and the jobs it spawns a task for are pending; a job in status
\* completed or error is never picked up and its row never changes again.
C18_JobStatusPath ==
    [][/\ \A j \in JobIds :
             jobs'[j] # jobs[j]
             => \/ jobs[j].status = "pending" /\ jobs'[j].status = "in_progress"
                \/ /\ jobs[j].status = "in_progress"
                   /\ jobs'[j].status \in {"completed", "pending", "error"}
       /\ \A i \in DOMAIN cycle'.loaded :
             jobs'[cycle'.loaded[i].id].status = "pending"
       /\ \A j \in DOMAIN tasks' \ DOMAIN tasks : jobs[j].status = "pending"
    ]_vars

C18_Witness ==
    /\ cycle.left = 0
    /\ \E j \in JobIds : \E k \in JobIds :
          /\ jobs[j].status = "error" /\ j \notin DOMAIN tasks
          /\ jobs[k].status = "in_progress" /\ jobs[k].failure_count = 2

\* C19: when the broker returns the error of a 404 to the repository
\* request of a job, the job is set to error, no repository row is
\* upserted and the job's failure_count stays what it was.
C19_NotFoundIsPermanent ==
    [][\A j \in JobIds :
          /\ j \in DOMAIN tasks /\ tasks[j].pc = "fetch"
          /\ j \in DOMAIN tasks' /\ tasks'[j].pc # "fetch"
          /\ callers[tasks[j].caller].result.msg = <<"unexpected status", 404>>
          => /\ jobs'[j].status = "error"
             /\ repositories' = repositories
             /\ jobs'[j].failure_count = jobs[j].failure_count
    ]_vars

\* C20: when a job's run ends, a successful run leaves the job completed
\* with failure_count 0 and no error_message, and a run that failed with a
\* transient error leaves it pending with failure_count one more than the
\* job had when it was loaded.
C20_CountersAtJobEnd ==
    [][\A j \in JobIds :
          TaskEnds(j)
          => LET res == tasks'[j].result
             IN  /\ res.ok
                    => /\ jobs'[j].status = "completed"
                       /\ jobs'[j].failure_count = 0
                       /\ jobs'[j].error_message = NoMsg
                 /\ ~res.ok /\ ~IsPermanentError(res.err)
                    => /\ jobs'[j].status = "pending"
                       /\ jobs'[j].failure_count = tasks[j].job.failure_count + 1
    ]_vars

C20_Witness ==
    \E j \in JobIds : \E k \in JobIds :
        /\ j \in DOMAIN tasks /\ tasks[j].pc = "done" /\ tasks[j].result.ok
        /\ tasks[j].job.failure_count = 1 /\ tasks[j].job.error_message # NoMsg
        /\ jobs[j].status = "completed"
        /\ k \in DOMAIN tasks /\ tasks[k].pc = "done" /\ ~tasks[k].result.ok
        /\ tasks[k].job.failure_count = 1
        /\ jobs[k].status = "pending" /\ jobs[k].failure_count = 2


\* What the classifier is to answer: permanent for a seed mismatch, for
\* the statuses 403, 410 and 451, and for a 404 of a GithubApiError whose
\* endpoint is repos/{owner}/{name}.
ClaimPermanent(err) ==
    \/ err.type = "seed_mismatch"
    \/ StatusFromError(err) \in {403, 410, 451}
    \/ /\ err.type = "api" /\ err.status = 404
       /\ Len(err.endpoint) = 3 /\ err.endpoint[1] = "repos"

\* C21: a job whose run failed is set to error exactly when the error is a
\* seed mismatch, a 403, 410 or 451, or a 404 on repos/{owner}/{name}; a 404
\* on an issues, comments or users endpoint and every other error put it
\* back to pending.
C21_Classifier ==
    \A j \in DOMAIN tasks :
        tasks[j].pc = "done" /\ ~tasks[j].result.ok
        => (jobs[j].status = "error" <=> ClaimPermanent(tasks[j].result.err))


\* The repository the remote returns for the seed of job j differs from the
\* seed in more than case.
SeedDiffers(j) ==
    Lower(RepoPayload(RepoBody(jobs[j].name))) # Lower(<<jobs[j].owner, jobs[j].name>>)

\* C22: the run of a job whose fetched repository differs from its seed,
\* ignoring case, ends at the check: the job is set to error with the
\* message of the seed mismatch, and the step writes no repository row, no
\* issue row and no watermark.
C22_SeedMismatchGuard ==
    [][\A j \in JobIds :
          (/\ j \in DOMAIN tasks /\ j \in DOMAIN tasks'
           /\ tasks[j].pc = "spawned" /\ tasks'[j].pc # "spawned"
           /\ SeedDiffers(j))
          => /\ tasks'[j].pc = "done"
             /\ jobs'[j].status = "error"
             /\ jobs'[j].error_message.text = "seed mismatch"
             /\ repositories' = repositories
             /\ store' = store]_vars

C22_Witness ==
    \E j \in DOMAIN tasks :
        /\ tasks[j].pc = "done" /\ SeedDiffers(j)
        /\ tasks[j].result.err.type = "seed_mismatch"
        /\ jobs[j].status = "error"
        /\ \E k \in DOMAIN tasks : jobs[k].name = "N" /\ tasks[k].pc = "list"

\* C23: no step lowers the stored watermark of a repository or removes
\* it, whatever jobs run in the cycle and however their steps interleave.
C23_WatermarkNeverDecreases ==
    [][\A w \in store.watermarks :
          WatermarkOf(store'.watermarks, w.repo) >= w.last_updated]_vars

C23_Witness ==
    \E j \in DOMAIN tasks : \E k \in DOMAIN tasks :
        /\ j # k
        /\ tasks[j].pc = "return" /\ tasks[j].wrote
        /\ tasks[j].watermark > 0 /\ tasks[j].newest > tasks[j].watermark
        /\ WatermarkOf(store.watermarks, tasks[j].repo) = tasks[j].newest
        /\ tasks[k].pc = "set" /\ tasks[k].newest > 0

\* C24: a run reads the stored watermark T at its start and requests every
\* page of the issue listing with since = T, and every issue row a step
\* writes belongs to a run handling an item of its page whose updated_at
\* is strictly greater than that run's T.
C24_SinceIsWatermark ==
    [][/\ \A j \in DOMAIN tasks' :
            /\ (j \in DOMAIN tasks /\ tasks[j].pc = "spawned" /\ tasks'[j].pc = "list")
               => tasks'[j].watermark =
                      WatermarkOf(store.watermarks, tasks'[j].repo)
            /\ (j \in DOMAIN tasks /\ tasks[j].pc = "list"
                /\ tasks'[j].pc \in {"items", "set"})
               => tasks'[j].asked = tasks[j].watermark
       /\ \A r \in store'.issues \ store.issues :
            \E j \in DOMAIN tasks :
               /\ tasks[j].pc = "items" /\ tasks[j].repo = r.repo
               /\ Head(tasks[j].items).number = r.number
               /\ r.updated_at = Head(tasks[j].items).updated_at
               /\ r.updated_at > tasks[j].watermark]_vars

C24_Witness ==
    \E j \in DOMAIN tasks :
        /\ tasks[j].pc = "set"
        /\ tasks[j].watermark = 1 /\ tasks[j].asked = 1 /\ tasks[j].newest = 2
        /\ \E r \in store.issues :
              r.repo = tasks[j].repo /\ r.number = 2 /\ r.updated_at = 2
        /\ \E r \in store.issues :
              r.repo = tasks[j].repo /\ r.number = 1 /\ r.updated_at = 1

\* C25: a run that returns Ok has written the watermark exactly when it
\* handled an item whose updated_at is strictly greater than the watermark
\* it read; a run that found nothing newer has performed no write.
C25_WriteOnlyWhenNewer ==
    \A j \in DOMAIN tasks :
        tasks[j].pc = "return"
        => (tasks[j].wrote <=> tasks[j].newest > tasks[j].watermark)

\* The task j handles the head of its page in this step, and the item is
\* newer than the watermark.
HandlesItem(j) ==
    /\ j \in DOMAIN tasks /\ j \in DOMAIN tasks'
    /\ tasks[j].pc = "items" /\ tasks'[j] # tasks[j]
    /\ ~SeenExisting(Head(tasks[j].items), tasks[j].watermark)

C27_UserNotFound ==
    [][\A j \in JobIds :
          (/\ HandlesItem(j)
           /\ Head(tasks[j].items).author \notin tasks[j].users
           /\ Head(tasks[j].items).author \in env.ghosts)
          => /\ [login |-> Head(tasks[j].items).author, found |-> FALSE]
                    \in store'.users
             /\ tasks'[j].pc # "done"
             /\ jobs'[j] = jobs[j]]_vars

\* C28: at most max(k, 1) tasks are between the acquisition of their permit
\* and their end, k being max_concurrent_repos, and a spawned task is never
\* kept waiting while fewer than max(k, 1) are: with k jobs marked, k run
\* at the same time.
C28_RepoConcurrency ==
    /\ Cardinality(Running) <= Max({env.maxRepos, 1})
    /\ \A j \in DOMAIN tasks :
          (tasks[j].pc = "spawned" /\ Cardinality(Running) < Max({env.maxRepos, 1}))
          => ENABLED BeginRepo(j)

C28_Witness ==
    /\ env.maxRepos = MaxConcurrentRepos
    /\ Cardinality({j \in DOMAIN tasks : tasks[j].pc \in {"list", "items", "set"}})
          = MaxConcurrentRepos

\* C29: a budget task takes an item out of its channels only when it holds
\* no item, the one before having been finalized; while it holds one, in
\* an attempt, a backoff, a pause or a rate-limit wait, the channels of its
\* budget only grow, the critical one included, and the permits out are
\* at most one for each budget task that holds an item.
C29_OneItemPerBudget ==
    [][/\ \A b \in Budgets : \A l \in 1..3 :
            Len(queues'[b][l]) < Len(queues[b][l])
            => /\ sched[b].work = NoWork
               /\ sched[b].pc \in {"scan", "select"}
               /\ sched'[b].work = Head(queues[b][l])
               /\ queues'[b][l] = Tail(queues[b][l])
       /\ \A b \in Budgets : Working(b) <=> sched[b].work # NoWork
       /\ inflight <= Cardinality({b \in Budgets : Working(b)})]_vars

C29_Witness ==
    \E b \in Budgets :
        /\ sched[b].pc = "backoff" /\ sched[b].attempt >= 1
        /\ queues[b][1] # <<>>

\* C30: whenever run_once is not running, no job is in_progress: every job
\* the cycle marked has been set to completed, pending or error before the
\* cycle returned, also when a write of the final status failed.
C30_NoJobLeftInProgress ==
    cycle.pc = "idle" => \A j \in JobIds : jobs[j].status # "in_progress"

\* The order the weights prescribe for c critical, n normal and b backfill
\* items: cycle after cycle up to wC critical, then up to wN normal, then
\* up to wB backfill, as long as a cycle serves something.
RECURSIVE CycleOrder(_, _, _, _)
CycleOrder(w, c, n, b) ==
    LET tc == Min({w[1], c})
        tn == Min({w[2], n})
        tb == Min({w[3], b})
    IN  IF tc + tn + tb = 0 THEN <<>>
        ELSE [i \in 1..(tc + tn + tb) |->
                 IF i <= tc THEN 1 ELSE IF i <= tc + tn THEN 2 ELSE 3]
             \o CycleOrder(w, c - tc, n - tn, b - tb)

\* The items of the search backlog taken out of the channels so far.
BacklogServed ==
    2 * PreQueued - Len(queues["search"][1]) - Len(queues["search"][2])

\* C31: with weights 2, 1, 0 on a backlog of critical and normal items, the
\* budget task takes the items in the order of the weighted cycles: each
\* item it takes comes from the lane the order names next, which for ten
\* and ten is C,C,N four times, C,C, and then normal items only.
C31_BacklogOrder ==
    [][/\ \A l \in 1..3 :
            Len(queues'["search"][l]) < Len(queues["search"][l])
            => /\ Len(queues'["search"][l]) = Len(queues["search"][l]) - 1
               /\ CycleOrder(<<2, 1, 0>>, PreQueued, PreQueued, 0)[BacklogServed + 1] = l
       /\ PreQueued >= 10
          => SubSeq(CycleOrder(<<2, 1, 0>>, PreQueued, PreQueued, 0), 1, 14)
                = <<1, 1, 2, 1, 1, 2, 1, 1, 2, 1, 1, 2, 1, 1>>
       /\ \A i \in 16..(2 * PreQueued) :
            PreQueued = 10
            => CycleOrder(<<2, 1, 0>>, PreQueued, PreQueued, 0)[i] = 2]_vars

C31_Witness ==
    /\ BacklogServed = 2 * PreQueued
    /\ sched["search"].pc = "select"
    /\ \A c \in Callers : callers[c].pc = "idle"

\* C32: pick_token(B) returns, among the tokens whose B counters have
\* remaining > 0 or reset_at <= now, one with the maximal
\* remaining / max(limit, 1); when no token is eligible it returns Wait(d)
\* with d the smallest reset_at - now over the tokens, and Wait(30 s) when
\* the pool holds no token.
C32_TokenSelection ==
    [][\A b \in Budgets :
        (sched[b].pc = "pick" /\ sched'[b].pc # "pick") =>
            LET rem(t) == tokens[t][b].remaining
                lim(t) == IF tokens[t][b].limit > 1 THEN tokens[t][b].limit ELSE 1
                eligible == {t \in DOMAIN tokens :
                                rem(t) > 0 \/ tokens[t][b].reset <= 0}
                chosen == sched'[b].token
            IN  IF eligible # {}
                THEN /\ sched'[b].pc = "http"
                     /\ chosen \in eligible
                     /\ \A u \in eligible : rem(chosen) * lim(u) >= rem(u) * lim(chosen)
                ELSE /\ sched'[b].pc = "ratesleep"
                     /\ sched'[b].wait =
                            IF DOMAIN tokens = {} THEN NoTokenWait
                            ELSE Min({tokens[t][b].reset : t \in DOMAIN tokens})]_vars

\* The second token was chosen although the first one is eligible too, its
\* share of remaining calls being smaller.
C32_Witness ==
    /\ sched["search"].pc = "http"
    /\ sched["search"].token = "t2"
    /\ DOMAIN tokens = {"t1", "t2"}
    /\ tokens["t1"]["search"].remaining > 0
    /\ tokens["t1"]["search"].remaining * tokens["t2"]["search"].limit
           < tokens["t2"]["search"].remaining * tokens["t1"]["search"].limit

\* C33: in every reachable state each token's counters for each budget
\* satisfy 0 <= remaining <= limit, after any sequence of header updates
\* and consumes.
C33_RemainingWithinLimit ==
    \A t \in DOMAIN tokens : \A b \in Budgets :
        /\ 0 <= tokens[t][b].remaining
        /\ tokens[t][b].remaining <= tokens[t][b].limit

\* C34: for each token and budget reset_at never decreases: every refresh
\* from response headers leaves reset_at greater than or equal to its
\* previous value.
C34_ResetMonotone ==
    [][\A b \in Budgets :
        (sched[b].pc = "http" /\ sched'[b].pc # "http") =>
            \A t \in DOMAIN tokens :
                tokens'[t][b].reset >= tokens[t][b].reset]_vars

\* C35: a caller coalesced onto a pending fingerprint is served only when
\* the first caller's work item is served, on the first caller's budget and
\* priority lane: it never sends a work item of its own, whatever its own
\* priority (a critical caller that joins a backfill entry waits for the
\* backfill item).
C35_JoinerWaitsForFirst ==
    [][\A c \in Callers :
        LET f == callers[c].joined
        IN  (f # None /\ f # c) =>
                /\ callers[c].pc # "send" /\ callers'[c].pc # "send"
                /\ (callers[c].pc = "waiting" /\ callers'[c].pc = "done") =>
                       \E b \in Budgets :
                           /\ sched[b].pc = "finish" /\ sched'[b].pc # "finish"
                           /\ sched[b].work.key = callers[c].req.key
                           /\ b = callers[f].req.budget
                           /\ sched[b].work.request.priority = callers[f].req.priority
                           /\ callers[f].pc \in {"waiting", "cancelled"}]_vars

\* The critical caller was answered with the result of the backfill item it
\* joined; the third caller's critical item has been served as well.
C35_Witness ==
    /\ callers["c2"].pc = "done" /\ callers["c2"].result.ok
    /\ callers["c2"].req.priority = "critical"
    /\ callers["c2"].joined = "c1"
    /\ callers["c1"].pc = "done"
    /\ callers["c1"].req.priority = "backfill"
    /\ callers["c3"].pc = "done"
    /\ sched["core"].pc = "select" /\ sched["core"].processed = FALSE

\* C36: the global and the per-repository permit of an attempt are released
\* when the HTTP adapter returns: the permits that are out are exactly those
\* of the tasks inside an attempt (from the acquisition up to the return of
\* the HTTP call), so a task in a Retry-After sleep, a secondary-limit sleep
\* or a backoff sleep owns none, and when no attempt is in progress all
\* global permits and all permits of every repository are available.
C36_PermitsReleasedAtReturn ==
    /\ inflight = Cardinality({b \in Budgets :
                      sched[b].pc \in {"repo", "pick", "ratesleep", "http"}})
    /\ \A k \in RepoKeys :
          (IF k \in DOMAIN perRepo THEN perRepo[k] ELSE 0) =
              Cardinality({b \in Budgets :
                  /\ sched[b].pc \in {"pick", "ratesleep", "http"}
                  /\ RepoOf(sched[b]) = k})

\* One task sleeps its backoff after a failed attempt on a repository while
\* another task is in its HTTP call: one global permit is out, and none of
\* the repository of the sleeping task.
C36_Witness ==
    \E b \in Budgets, o \in Budgets :
        /\ sched[b].pc = "backoff" /\ sched[b].timer > 0
        /\ RepoOf(sched[b]) # NoKey
        /\ sched[o].pc = "http"
        /\ RepoOf(sched[o]) = NoKey
        /\ inflight = 1
        /\ perRepo[RepoOf(sched[b])] = 0

\* C37: when a run of process_repo ends with an error, whatever the point,
\* the stored watermark of its repository is exactly what the run read at
\* its start, even when the run has upserted issues: the step that ends the
\* run writes no watermark, and no earlier step of the run wrote one.
C37_FailedRunKeepsWatermark ==
    [][\A j \in DOMAIN tasks :
        (TaskEnds(j) /\ ~tasks'[j].result.ok) =>
            /\ store'.watermarks = store.watermarks
            /\ ~tasks[j].wrote
            /\ tasks[j].repo # <<>> =>
                   {w.last_updated : w \in {x \in store'.watermarks :
                                               x.repo = tasks[j].repo}}
                       = IF tasks[j].watermark = 0 THEN {} ELSE {tasks[j].watermark}]_vars

\* A run failed after it had upserted an issue newer than the watermark it
\* started from, and the stored watermark is still that one.
C37_Witness ==
    \E j \in DOMAIN tasks :
        /\ tasks[j].pc = "done" /\ ~tasks[j].result.ok
        /\ tasks[j].watermark > 0
        /\ tasks[j].newest > tasks[j].watermark
        /\ \E r \in store.issues :
              r.repo = tasks[j].repo /\ r.updated_at = tasks[j].newest
        /\ [repo |-> tasks[j].repo, last_updated |-> tasks[j].watermark]
               \in store.watermarks

\* The parameters of a query string, split at "&".
QueryParams(q) ==
    IF q = "" THEN {}
    ELSE IF q \in {"a=1&b=2", "b=2&a=1"} THEN {"a=1", "b=2"}
    ELSE {q}

\* C38: two GET requests with the same method and path whose query strings
\* hold the same parameters in a different order have the same fingerprint,
\* so that they coalesce and share a cache entry.
C38_QueryOrderIgnored ==
    \A c \in Callers, d \in Callers :
        LET g == callers[c].req
            h == callers[d].req
        IN  /\ g # NoReq /\ h # NoReq
            /\ g.inner.method = "GET" /\ h.inner.method = "GET"
            /\ g.inner.path = h.inner.path
            /\ QueryParams(g.inner.query) = QueryParams(h.inner.query)
            => g.key = h.key /\ CacheKey(g.inner) = CacheKey(h.inner)

\* C39: cache.get(k) never returns an entry whose age is T or more, and a
\* get(k) that follows put(k, v) with no other put in between returns v
\* exactly when the age of v is less than T: the lookup a caller makes when
\* it builds a GET request yields the entry stored under its key if that
\* entry is younger than T, and nothing otherwise.
C39_CacheFreshness ==
    [][\A c \in Callers :
        (callers[c].pc = "idle" /\ callers'[c].pc = "register"
             /\ callers'[c].req.inner.method = "GET") =>
            LET k == callers'[c].req.key
                stored == {cache[i].entry : i \in {x \in DOMAIN cache : cache[x].key = k}}
                got == callers'[c].cached
            IN  /\ got # NoCached => got \in stored /\ got.age < CacheTtl
                /\ \A e \in stored : e.age < CacheTtl => got = e]_vars

\* A caller got the entry that was put one time unit before T ran out,
\* while another caller, looking up later, found the same entry stale.
C39_Witness ==
    \E c \in Callers, d \in Callers :
        /\ callers[c].cached # NoCached
        /\ callers[c].cached.age = CacheTtl - 1
        /\ callers[d].pc = "register"
        /\ callers[d].req.key = callers[c].req.key
        /\ callers[d].cached = NoCached
        /\ \E i \in DOMAIN cache :
              cache[i].key = callers[d].req.key /\ cache[i].entry.age >= CacheTtl

\* The backoff sleep of budget b starts in this step.
BackoffStarts(b) == sched[b].pc # "backoff" /\ sched'[b].pc = "backoff"

\* C40: for the a-th retry (a >= 1) with base b, cap max and jitter
\* fraction j the sleep before the next attempt lies in
\* [b * 2^(a-1) * (1 - j), min(max, b * 2^(a-1)) * (1 + j)].
C40_BackoffInterval ==
    [][\A b \in Budgets :
        BackoffStarts(b) =>
            LET a == sched'[b].attempt
                d == sched'[b].timer
                raw == BackoffBase * 2^(a - 1)
                capped == IF raw > BackoffMax THEN BackoffMax ELSE raw
            IN  /\ JitterDen * d >= raw * (JitterDen - JitterNum)
                /\ JitterDen * d <= capped * (JitterDen + JitterNum)]_vars

\* C40, amended: with c = min(max, b * 2^(a-1)) the sleep lies in
\* [c * (1 - j), c * (1 + j)], up to the rounding of the jitter to a whole
\* time unit (half a unit at most); the cap bounds both ends of the interval.
C40_BackoffIntervalCapped ==
    [][\A b \in Budgets :
        BackoffStarts(b) =>
            LET a == sched'[b].attempt
                d == sched'[b].timer
                raw == BackoffBase * 2^(a - 1)
                capped == IF raw > BackoffMax THEN BackoffMax ELSE raw
            IN  /\ 2 * JitterDen * d >= 2 * capped * (JitterDen - JitterNum) - JitterDen
                /\ 2 * JitterDen * d <= 2 * capped * (JitterDen + JitterNum) + JitterDen]_vars

\* A task sleeps the capped backoff: the doubled base has passed the cap.
C40_Witness ==
    \E b \in Budgets :
        /\ sched[b].pc = "backoff"
        /\ sched[b].attempt >= 2
        /\ BackoffBase * 2^(sched[b].attempt - 1) > BackoffMax
        /\ sched[b].timer = BackoffMax

====
